---- MODULE Spec2Model ----
(***************************************************************************)
(* A model of the Noja core: the open-addressed Map object (hash table     *)
(* with mapper/keys/vals arrays) and the AST-to-bytecode code generator.   *)
(***************************************************************************)
EXTENDS Integers, Sequences, FiniteSets, TLC

VARIABLES
    map,        \* the MapObject: mapper_size, count, mapper, keys, vals
    layout,     \* where Heap_RawMalloc placed the arrays of the map, see Layouts
    mstatus,    \* "ok", "nomap" (Object_NewMap returned NULL), "crashed", "hung"
    last,       \* the most recent call on the map and what it returned
    latest,     \* history: key -> value of the most recent successful insert
    order,      \* history: distinct keys in the order of their first successful insert
    pc,         \* where compile stands: "idle", "emit", "tail", "finalize", "returned", "crashed"
    input,      \* the call of compile: program, whether alloc was supplied, failing call
    ctx,        \* the CodegenContext and what it points to: builder, promises, error
    result,     \* what compile returned: "none", "NULL", "exe", "wild"
    exe,        \* the instructions of the Executable that was returned
    frees,      \* number of BPAlloc_Free calls on the scratch allocator
    closure,    \* the vars of the current ClosureObject and of its prev chain, innermost first
    csel        \* the most recent select on the closure and what it returned

mapvars == <<map, layout, mstatus, last, latest, order>>

cgvars == <<pc, input, ctx, result, exe, frees>>

clvars == <<closure, csel>>

vars == <<map, layout, mstatus, last, latest, order,
          pc, input, ctx, result, exe, frees, closure, csel>>

----------------------------------------------------------------------------
(* Bounds *)

\* the number of entries a map is filled up to
MaxCount == 6

\* the number of closures chained through prev
MaxChain == 3

\* the fallible calls of one compile (allocations, appends, finalize) are
\* numbered from 1; the call that fails is chosen up to this number
MaxFailAt == 8

----------------------------------------------------------------------------
(* Objects used as keys and values *)

\* hashable key objects, named after their hash value
HashableKeys == {"k0", "k1", "k9"}

\* a key object whose type has no hash capability
UnhashableKeys == {"kbad"}

Keys == HashableKeys \cup UnhashableKeys

\* a key object whose hash is a negative int
NegativeKeys == {"km32"}

Vals == {"v1", "v2"}

\* a pointer that was never written, and one that was overwritten in part
Wild == {"uninit", "junk"}

\* the placements of the arrays that Heap_RawMalloc returns: keys right after
\* mapper, at addresses with bit 31 clear ("adjacent") or set ("adjacent_neg"),
\* or the two apart from each other
Layouts == {"adjacent", "adjacent_neg", "apart"}

\* what the low half of a 64-bit heap pointer reads as when taken for an int
PtrLoBits(lay) == IF lay = "adjacent_neg" THEN -2 ELSE 99

\* what the high half of a 64-bit heap pointer reads as when taken for an int
PtrHiBits == 16 * 16 * 16 * 5 + 1365

Object_Hash(key) ==
    CASE key = "k0"  -> [err |-> FALSE, hash |-> 0]
      [] key = "k1"  -> [err |-> FALSE, hash |-> 1]
      [] key = "k9"  -> [err |-> FALSE, hash |-> 9]
      [] key = "k33" -> [err |-> FALSE, hash |-> 33]
      [] key = "km1" -> [err |-> FALSE, hash |-> -1]
      [] key = "km32" -> [err |-> FALSE, hash |-> -32]
      [] OTHER       -> [err |-> TRUE,  hash |-> -1]

\* outcomes of Object_Compare(key, obj): obj may be a wild pointer
Object_Compare(key, obj) ==
    IF obj \in Wild THEN {"crash", "true", "false"}
    ELSE IF key = obj THEN {"true"} ELSE {"false"}

----------------------------------------------------------------------------
(* Integer helpers: C int operators on the values that occur *)

\* x & mask for mask = 2^n - 1, two's complement
BitAnd(x, mask) == x % (mask + 1)

\* x >> 5 on a signed int (arithmetic shift)
Shr5(x) == x \div 32

RECURSIVE IsPow2(_)
IsPow2(n) == IF n = 1 THEN TRUE
             ELSE IF n < 1 \/ n % 2 = 1 THEN FALSE
             ELSE IsPow2(n \div 2)

----------------------------------------------------------------------------
(* Map *)

calc_capacity(mapper_size) == (mapper_size * 2) \div 3

RECURSIVE InitialMapperSize(_, _)
InitialMapperSize(mapper_size, num) ==
    IF calc_capacity(mapper_size) < num
    THEN InitialMapperSize(mapper_size * 2, num)
    ELSE mapper_size

NoMap == [mapper_size |-> 0, count |-> 0, mapper_alloc |-> 0,
          mapper |-> <<>>, keys |-> <<>>, vals |-> <<>>]

\* the MapObject that Object_NewMap(num) builds when its allocations succeed
NewMapObject(num) ==
    LET n           == IF num < 0 THEN 0 ELSE num
        mapper_size == InitialMapperSize(8, n)
        capacity    == calc_capacity(mapper_size)
    IN  [mapper_size  |-> mapper_size,
         count        |-> 0,
         mapper_alloc |-> capacity,
         mapper       |-> [i \in 0..(mapper_size - 1) |-> -1],
         keys         |-> [i \in 0..(capacity - 1) |-> "uninit"],
         vals         |-> [i \in 0..(capacity - 1) |-> "uninit"]]

\* outcomes of Object_NewMap(num): malloc_ok says whether every allocation
\* succeeded; the loop that clears the mapper writes past the allocation
Object_NewMap(num, malloc_ok) ==
    IF ~malloc_ok THEN {[status |-> "nomap", map |-> NoMap]}
    ELSE LET m == NewMapObject(num)
         IN  {[status |-> "ok", map |-> m]}
             \cup (IF m.mapper_alloc < m.mapper_size
                   THEN {[status |-> "crashed", map |-> m]} ELSE {})

\* keys[i] as the code reads it: past the allocation it is a wild pointer
KeyAt(m, i) == IF i < calc_capacity(m.mapper_size) THEN m.keys[i] ELSE "junk"

\* vals[i] as the code reads it
ValAt(m, i) == IF i < calc_capacity(m.mapper_size) THEN m.vals[i] ELSE "junk"

\* the next probe position: pert >>= 5; i = (i * 5 + pert + 1) & mask
NextPert(pert) == Shr5(pert)

NextSlot(i, pert, mask) == BitAnd(i * 5 + NextPert(pert) + 1, mask)

\* outcomes of assert(k >= 0)
AssertNonNeg(k) == IF k >= 0 THEN {"pass"} ELSE {"abort", "pass"}

\* the probe loop of select, from slot i with perturbation pert
RECURSIVE select_probe(_, _, _, _, _)
select_probe(m, key, i, pert, seen) ==
    IF <<i, pert>> \in seen THEN {[ret |-> "hang", err |-> FALSE]}
    ELSE
    LET k    == m.mapper[i]
        mask == m.mapper_size - 1
        rest == select_probe(m, key, NextSlot(i, pert, mask), NextPert(pert),
                             seen \cup {<<i, pert>>})
    IN  IF k = -1 THEN {[ret |-> "NULL", err |-> FALSE]}
        ELSE UNION { IF a = "abort" THEN {[ret |-> "crash", err |-> FALSE]}
                     ELSE UNION { CASE c = "crash" -> {[ret |-> "crash", err |-> FALSE]}
                                    [] c = "true"  -> {[ret |-> ValAt(m, i), err |-> FALSE]}
                                    [] OTHER       -> rest
                                  : c \in Object_Compare(key, KeyAt(m, i)) }
                   : a \in AssertNonNeg(k) }

\* outcomes of select(self, key)
select(m, key) ==
    LET h == Object_Hash(key)
    IN  IF h.err THEN {[ret |-> "NULL", err |-> TRUE]}
        ELSE select_probe(m, key, BitAnd(h.hash, m.mapper_size - 1), h.hash, {})

\* the probe loop of grow for one entry: the slot it lands in, or -1 when the
\* loop never finds an empty slot
RECURSIVE grow_probe(_, _, _, _, _)
grow_probe(mapper, mask, j, pert, seen) ==
    IF <<j, pert>> \in seen THEN -1
    ELSE IF mapper[j] = -1 THEN j
    ELSE grow_probe(mapper, mask, NextSlot(j, pert, mask), NextPert(pert),
                    seen \cup {<<j, pert>>})

\* the rehash loop of grow over entries i .. count-1, given their hashes
RECURSIVE rehash(_, _, _, _, _)
rehash(mapper, new_mapper_size, hashes, i, count) ==
    IF i = count THEN [status |-> "ok", mapper |-> mapper]
    ELSE LET mask == new_mapper_size - 1
             j    == grow_probe(mapper, mask, BitAnd(hashes[i], mask), hashes[i], {})
         IN  IF j = -1 THEN [status |-> "hung", mapper |-> mapper]
             ELSE rehash([mapper EXCEPT ![j] = i], new_mapper_size, hashes, i + 1, count)

\* the hashes Object_Hash may return for the entries of keys: the hash of the
\* key object, or any of two values when the entry is a wild pointer
EntryHashes(keys, count) ==
    LET wild == {i \in 0..(count - 1) : keys[i] \in Wild}
    IN  { [i \in 0..(count - 1) |->
              IF i \in wild THEN w[i] ELSE Object_Hash(keys[i]).hash]
          : w \in [wild -> {0, 1}] }

\* grow with the mapper cleared before the allocations are checked
grow_clears_first(m, alloc_ok) ==
    IF ~alloc_ok
    THEN {[ret |-> FALSE, status |-> "ok",
           map |-> [m EXCEPT !.mapper = [i \in DOMAIN m.mapper |-> -1]]]}
    ELSE {}

\* outcomes of grow(map): alloc_ok says whether the three allocations succeeded
grow(m, alloc_ok) ==
    IF ~alloc_ok THEN {[ret |-> FALSE, status |-> "ok", map |-> m]}
    ELSE
    LET new_mapper_size == m.mapper_size * 2
        new_capacity    == calc_capacity(new_mapper_size)
        keys   == [i \in 0..(new_capacity - 1) |->
                      IF i < m.count THEN m.keys[i] ELSE "uninit"]
        vals   == [i \in 0..(new_capacity - 1) |->
                      IF i < m.count THEN m.vals[i] ELSE "uninit"]
        mapper == [i \in 0..(new_mapper_size - 1) |-> -1]
    IN  (IF \E i \in 0..(m.count - 1) : keys[i] \in Wild
         THEN {[ret |-> FALSE, status |-> "crashed", map |-> m]} ELSE {})
        \cup
        { LET r == rehash(mapper, new_mapper_size, h, 0, m.count)
          IN  IF r.status = "hung"
              THEN [ret |-> FALSE, status |-> "hung", map |-> m]
              ELSE [ret |-> TRUE, status |-> "ok",
                    map |-> [mapper_size  |-> new_mapper_size,
                             count        |-> m.count,
                             mapper_alloc |-> new_mapper_size,
                             mapper       |-> r.mapper,
                             keys         |-> keys,
                             vals         |-> vals]]
          : h \in EntryHashes(keys, m.count) }

\* the entry of keys whose memory the mapper cell c shares, when c lies past
\* the ints allocated for mapper: <<entry, half>>, or <<-1, 0>> for none
AliasOf(m, lay, c) ==
    LET pad == m.mapper_alloc % 2
        off == c - m.mapper_alloc - pad
    IN  IF lay = "apart" \/ c < m.mapper_alloc \/ off < 0
           \/ off \div 2 >= calc_capacity(m.mapper_size)
        THEN <<-1, 0>>
        ELSE <<off \div 2, off % 2>>

\* map->mapper[i] = map->count
WriteMapper(m, lay, i) ==
    LET a == AliasOf(m, lay, i)
    IN  [m EXCEPT !.mapper[i] = m.count,
                  !.keys = IF a[1] >= 0 THEN [m.keys EXCEPT ![a[1]] = "junk"]
                           ELSE m.keys]

\* map->keys[map->count] = key_copy; a mapper cell that shares the memory of
\* the entry now reads as one half of the pointer
WriteKey(m, lay, key_copy) ==
    [m EXCEPT !.keys[m.count] = key_copy,
              !.mapper = [c \in DOMAIN m.mapper |->
                             LET a == AliasOf(m, lay, c)
                             IN  IF a[1] = m.count
                                 THEN IF a[2] = 0 THEN PtrLoBits(lay)
                                      ELSE PtrHiBits
                                 ELSE m.mapper[c]]]

\* the empty-slot branch of insert after Object_Copy succeeded
insert_append(m, lay, key, val, i) ==
    (IF i >= m.mapper_alloc /\ lay = "apart"
     THEN {[ret |-> "crash", map |-> m]} ELSE {})
    \cup
    { LET m1 == WriteMapper(m, lay, i)
          m2 == WriteKey(m1, lay, key)
      IN  [ret |-> "ok",
           map |-> [m2 EXCEPT !.vals[m.count] = val, !.count = m.count + 1]] }

\* the equal-key branch of insert: map->vals[i] = val.  An entry at or past
\* count stays indeterminate ("uninit" stands for any content); a write past
\* the allocation may also end the program
insert_overwrite(m, val, i) ==
    IF i < m.count
    THEN {[ret |-> "ok", map |-> [m EXCEPT !.vals[i] = val]]}
    ELSE IF i < calc_capacity(m.mapper_size)
    THEN {[ret |-> "ok", map |-> m]}
    ELSE {[ret |-> "ok", map |-> m], [ret |-> "crash", map |-> m]}

\* the probe loop of insert, from slot i with perturbation pert
RECURSIVE insert_probe(_, _, _, _, _, _, _, _)
insert_probe(m, lay, key, val, copy_ok, i, pert, seen) ==
    IF <<i, pert>> \in seen THEN {[ret |-> "hang", map |-> m]}
    ELSE
    LET k    == m.mapper[i]
        mask == m.mapper_size - 1
        rest == insert_probe(m, lay, key, val, copy_ok,
                             NextSlot(i, pert, mask), NextPert(pert),
                             seen \cup {<<i, pert>>})
    IN  IF k = -1
        THEN IF ~copy_ok THEN {[ret |-> "fail", map |-> m]}
             ELSE insert_append(m, lay, key, val, i)
        ELSE UNION { IF a = "abort" THEN {[ret |-> "crash", map |-> m]}
                     ELSE UNION { CASE c = "crash" -> {[ret |-> "crash", map |-> m]}
                                    [] c = "true"  -> insert_overwrite(m, val, i)
                                    [] OTHER       -> rest
                                  : c \in Object_Compare(key, KeyAt(m, i)) }
                   : a \in AssertNonNeg(k) }

\* insert after the capacity check: hash the key and probe
insert_hashed(m, lay, key, val, copy_ok) ==
    LET h == Object_Hash(key)
    IN  IF h.err THEN {[ret |-> "fail", map |-> m]}
        ELSE insert_probe(m, lay, key, val, copy_ok,
                          BitAnd(h.hash, m.mapper_size - 1), h.hash, {})

\* outcomes of insert(self, key, val): ret is "ok" (1), "fail" (0), "crash"
\* or "hang"
insert(m, lay, key, val, grow_ok, copy_ok) ==
    IF m.count = calc_capacity(m.mapper_size)
    THEN UNION { IF g.status = "crashed" THEN {[ret |-> "crash", map |-> g.map]}
                 ELSE IF g.status = "hung" THEN {[ret |-> "hang", map |-> g.map]}
                 ELSE IF ~g.ret THEN {[ret |-> "fail", map |-> g.map]}
                 ELSE insert_hashed(g.map, lay, key, val, copy_ok)
               : g \in grow(m, grow_ok) }
    ELSE insert_hashed(m, lay, key, val, copy_ok)

\* count(self)
count(m) == m.count

----------------------------------------------------------------------------
(* The map as a state machine *)

\* the arguments Object_NewMap is called with
Nums == {-1, 0, 6}

\* the insert calls that are made: <<key, val>>
InsertCalls == {<<"k0", "v1">>, <<"k1", "v1">>, <<"k1", "v2">>,
                <<"k9", "v1">>, <<"kbad", "v1">>}

NoCall == [op |-> "none", key |-> "none", ret |-> "none", err |-> FALSE,
           grow_failed |-> FALSE]

StatusAfter(ret) ==
    CASE ret = "crash" -> "crashed"
      [] ret = "hang"  -> "hung"
      [] OTHER         -> "ok"

MapInit ==
    /\ layout \in Layouts
    /\ \E num \in Nums, malloc_ok \in BOOLEAN :
         \E o \in Object_NewMap(num, malloc_ok) :
            /\ o.status = "crashed" => layout = "apart"
            /\ map = o.map
            /\ mstatus = o.status
    /\ last = NoCall
    /\ latest = [k \in Keys |-> "NULL"]
    /\ order = <<>>
    /\ pc = "idle"
    /\ input = [prog |-> "none", alloc_given |-> FALSE, fail_at |-> 0]
    /\ ctx = <<>>
    /\ result = "none"
    /\ exe = <<>>
    /\ frees = 0
    /\ closure = <<>>
    /\ csel = [op |-> "none", key |-> "", ret |-> "NULL", err |-> FALSE,
               consulted |-> 0]

Insert(key, val, grow_ok, copy_ok) ==
    /\ mstatus = "ok"
    /\ map.count < MaxCount
    /\ \E o \in insert(map, layout, key, val, grow_ok, copy_ok) :
         /\ map' = o.map
         /\ mstatus' = StatusAfter(o.ret)
         /\ last' = [op |-> "insert", key |-> key, ret |-> o.ret,
                     err |-> (o.ret = "fail"),
                     grow_failed |-> (map.count = calc_capacity(map.mapper_size)
                                      /\ ~grow_ok)]
         /\ latest' = IF o.ret = "ok" THEN [latest EXCEPT ![key] = val] ELSE latest
         /\ order' = IF o.ret = "ok" /\ \A n \in 1..Len(order) : order[n] # key
                     THEN Append(order, key) ELSE order
    /\ UNCHANGED <<layout, cgvars, clvars>>

Select(key) ==
    /\ mstatus = "ok"
    /\ \E o \in select(map, key) :
         /\ mstatus' = StatusAfter(o.ret)
         /\ last' = [op |-> "select", key |-> key, ret |-> o.ret,
                     err |-> o.err, grow_failed |-> FALSE]
    /\ UNCHANGED <<map, layout, latest, order, cgvars, clvars>>

MapNext ==
    \/ \E c \in InsertCalls, grow_ok \in BOOLEAN, copy_ok \in BOOLEAN :
          Insert(c[1], c[2], grow_ok, copy_ok)
    \/ \E key \in Keys \cup NegativeKeys : Select(key)

MapSpec == MapInit /\ [][MapNext]_vars

----------------------------------------------------------------------------
(* Properties of the map *)

\* the number of entries allocated for keys and vals
capacity(m) == Cardinality(DOMAIN m.keys)

\* C1: after any sequence of successful inserts, select(k) returns the value
\* most recently inserted under k, and NULL for a key never inserted
C1_SelectReturnsLatest ==
    (last.op = "select" /\ last.key \in HashableKeys)
        => (last.ret = latest[last.key] /\ ~last.err)

\* C4: count <= capacity, mapper_size is a power of two, capacity is
\* floor(mapper_size * 2 / 3), and every mapper slot holds -1 or an entry
\* index below count
C4_MapShape ==
    mstatus # "nomap" =>
        /\ map.count <= capacity(map)
        /\ IsPow2(map.mapper_size)
        /\ capacity(map) * 3 <= map.mapper_size * 2
        /\ map.mapper_size * 2 < (capacity(map) + 1) * 3
        /\ \A i \in 0..(map.mapper_size - 1) :
              map.mapper[i] = -1 \/ (0 <= map.mapper[i] /\ map.mapper[i] < map.count)

\* C5: keys[0..count) lists the distinct keys in the order of their first
\* insertion: a new key is appended at index count, re-inserting a key
\* changes no position and not count, grow keeps every entry at its index
C5_InsertionOrder ==
    mstatus = "ok" =>
        /\ map.count = Len(order)
        /\ \A j \in 0..(map.count - 1) : map.keys[j] = order[j + 1]

\* C9: an insert on a full map whose grow fails returns failure and leaves
\* mapper, mapper_size, keys, vals and count as they were
C9_GrowFailureLeavesMapUnchanged ==
    [][(last'.op = "insert" /\ last'.grow_failed)
          => (last'.ret = "fail" /\ map' = map /\ mstatus' = "ok")]_vars

\* an insert found the map full, grow failed, and earlier entries are there
C9_Witness ==
    /\ last.op = "insert" /\ last.grow_failed /\ last.ret = "fail"
    /\ map.count = capacity(map) /\ map.count > 0
    /\ \E i \in 0..(map.mapper_size - 1) : map.mapper[i] = 0

\* the first slot that select and insert probe for key
FirstSlot(m, key) == BitAnd(Object_Hash(key).hash, m.mapper_size - 1)

\* C14: every index used on mapper (0 .. mapper_size - 1, by the loop of
\* Object_NewMap and by the probes) is below the number of ints allocated for
\* mapper, and the entry of keys that a select has read at its first occupied
\* slot is below count and below the allocated capacity
C14_AccessesInBounds ==
    mstatus # "nomap" =>
        /\ map.mapper_size <= map.mapper_alloc
        /\ (last.op = "select" /\ last.key \in HashableKeys \cup NegativeKeys
               /\ map.mapper[FirstSlot(map, last.key)] # -1) =>
              /\ FirstSlot(map, last.key) < map.count
              /\ FirstSlot(map, last.key) < capacity(map)

\* C13: no call of select or insert runs its probe loop for ever, whatever the
\* hash of the key, negative hashes included
C13_ProbesTerminate ==
    /\ mstatus # "hung"
    /\ last.ret # "hang"

----------------------------------------------------------------------------
(* AST nodes, as the parser hands them to compile *)

NoNode == [kind |-> "NULL"]

Expr(ekind) == [kind |-> "NODE_EXPR", ekind |-> ekind]

IntExpr(val) == [kind |-> "NODE_EXPR", ekind |-> "EXPR_INT", val |-> val]

StringExpr(val) == [kind |-> "NODE_EXPR", ekind |-> "EXPR_STRING", val |-> val]

IdentExpr(val) == [kind |-> "NODE_EXPR", ekind |-> "EXPR_IDENT", val |-> val]

\* an operator expression: head is the list of operands
OperExpr(ekind, head) == [kind |-> "NODE_EXPR", ekind |-> ekind, head |-> head]

AssExpr(lop, rop) == OperExpr("EXPR_ASS", <<lop, rop>>)

PairExpr(l, r) == OperExpr("EXPR_PAIR", <<l, r>>)

CallExpr(func, argv) ==
    [kind |-> "NODE_EXPR", ekind |-> "EXPR_CALL", func |-> func, argv |-> argv,
     argc |-> Len(argv)]

IndexSelectionExpr(set, idx) ==
    [kind |-> "NODE_EXPR", ekind |-> "EXPR_SELECT", set |-> set, idx |-> idx]

ListExpr(items) ==
    [kind |-> "NODE_EXPR", ekind |-> "EXPR_LIST", items |-> items, itemc |-> Len(items)]

MapExpr(keys, items) ==
    [kind |-> "NODE_EXPR", ekind |-> "EXPR_MAP", keys |-> keys, items |-> items,
     itemc |-> Len(items)]

BreakNode == [kind |-> "NODE_BREAK"]

IfElseNode(condition, true_branch, false_branch) ==
    [kind |-> "NODE_IFELSE", condition |-> condition, true_branch |-> true_branch,
     false_branch |-> false_branch]

WhileNode(condition, body) ==
    [kind |-> "NODE_WHILE", condition |-> condition, body |-> body]

DoWhileNode(body, condition) ==
    [kind |-> "NODE_DOWHILE", condition |-> condition, body |-> body]

CompoundNode(head) == [kind |-> "NODE_COMP", head |-> head]

ReturnNode(val) == [kind |-> "NODE_RETURN", val |-> val]

\* argv is the list of the parameter names
FunctionNode(name, argv, body) ==
    [kind |-> "NODE_FUNC", name |-> name, argv |-> argv, argc |-> Len(argv),
     body |-> body]

----------------------------------------------------------------------------
(* Instructions, operands, promises, errors *)

Operand(type, as_int, as_string) ==
    [type |-> type, as_int |-> as_int, as_string |-> as_string]

OpInt(n) == Operand("OPTP_INT", n, "")

OpString(str) == Operand("OPTP_STRING", 0, str)

\* a float operand; the model keeps floats as their literal text
OpFloat(str) == Operand("OPTP_FLOAT", 0, str)

\* as_int names the promise by its number
OpPromise(promise) == Operand("OPTP_PROMISE", promise, "")

Instr(opcode, opv) == [opcode |-> opcode, opv |-> opv]

NoError == [occurred |-> FALSE, internal |-> FALSE, message |-> "", reports |-> 0]

\* _Error_Report2: the fields it sets. Its assert(err->occurred == 0) is
\* compiled out under NDEBUG; reports counts the calls, and a second report
\* happens only after a longjmp whose outcomes already include the crash
Error_Report(err, internal, message) ==
    [occurred |-> TRUE, internal |-> internal, message |-> message,
     reports |-> err.reports + 1]

\* the state the walk threads through: the builder's instructions, the
\* promises made, the fallible calls counted, and whether longjmp was called
NoCtx == [code |-> <<>>, promises |-> <<>>, ncalls |-> 0, jumped |-> FALSE,
          error |-> NoError, own_alloc |-> FALSE, fail_at |-> 0]

NoInput == [prog |-> "none", alloc_given |-> FALSE, fail_at |-> 0]

\* reportErrorAndJump_
reportErrorAndJump(st, internal, message) ==
    IF st.jumped THEN st
    ELSE [st EXCEPT !.error = Error_Report(st.error, internal, message),
                    !.jumped = TRUE]

\* ExeBuilder_Append: fails when this call is the one chosen to fail, and
\* then reports an internal error
ExeBuilder_Append(st, opcode, opv) ==
    LET n == st.ncalls + 1
    IN  IF n = st.fail_at
        THEN [ok |-> FALSE,
              st |-> [st EXCEPT !.ncalls = n,
                                !.error = Error_Report(st.error, TRUE, "No memory")]]
        ELSE [ok |-> TRUE,
              st |-> [st EXCEPT !.ncalls = n,
                                !.code = Append(st.code, Instr(opcode, opv))]]

ExeBuilder_InstrCount(st) == Len(st.code)

\* emitInstr: append, and longjmp when the append fails
emitInstr(st, opcode, opv) ==
    IF st.jumped THEN st
    ELSE LET r == ExeBuilder_Append(st, opcode, opv)
         IN  IF r.ok THEN r.st ELSE [r.st EXCEPT !.jumped = TRUE]

emitInstr_POP(st, op0) == emitInstr(st, "POP", <<OpInt(op0)>>)

emitInstr_POP1(st) == emitInstr_POP(st, 1)

emitInstr_ASS(st, name) == emitInstr(st, "ASS", <<OpString(name)>>)

\* Promise_New: the new promise is the last of st.promises
Promise_New(st) ==
    LET n == st.ncalls + 1
    IN  IF n = st.fail_at
        THEN [ok |-> FALSE, st |-> [st EXCEPT !.ncalls = n]]
        ELSE [ok |-> TRUE,
              st |-> [st EXCEPT !.ncalls = n,
                                !.promises = Append(st.promises,
                                    [resolved |-> 0, value |-> -1, freed |-> FALSE])]]

\* newOffsetPromise: the promise it returns is LastPromise of the result
newOffsetPromise(st) ==
    IF st.jumped THEN st
    ELSE LET r == Promise_New(st)
         IN  IF r.ok THEN r.st ELSE reportErrorAndJump(r.st, TRUE, "No memory")

LastPromise(st) == Len(st.promises)

Promise_Resolve(st, promise, value) ==
    IF st.jumped THEN st
    ELSE [st EXCEPT !.promises[promise] =
              [@ EXCEPT !.resolved = @ + 1, !.value = value]]

Promise_Free(st, promise) ==
    IF st.jumped THEN st
    ELSE [st EXCEPT !.promises[promise] = [@ EXCEPT !.freed = TRUE]]

----------------------------------------------------------------------------
(* The tree walk *)

\* the size of the tuple[] buffers of emitInstrForAssignmentNode and NODE_RETURN
TupleMax == 32

OperKinds == {"EXPR_NOT", "EXPR_POS", "EXPR_NEG", "EXPR_ADD", "EXPR_SUB",
              "EXPR_MUL", "EXPR_DIV", "EXPR_EQL", "EXPR_NQL", "EXPR_LSS",
              "EXPR_LEQ", "EXPR_GRT", "EXPR_GEQ", "EXPR_AND", "EXPR_OR"}

exprkind_to_opcode(kind) ==
    CASE kind = "EXPR_NOT" -> "NOT"
      [] kind = "EXPR_POS" -> "POS"
      [] kind = "EXPR_NEG" -> "NEG"
      [] kind = "EXPR_ADD" -> "ADD"
      [] kind = "EXPR_SUB" -> "SUB"
      [] kind = "EXPR_MUL" -> "MUL"
      [] kind = "EXPR_DIV" -> "DIV"
      [] kind = "EXPR_EQL" -> "EQL"
      [] kind = "EXPR_NQL" -> "NQL"
      [] kind = "EXPR_LSS" -> "LSS"
      [] kind = "EXPR_LEQ" -> "LEQ"
      [] kind = "EXPR_GRT" -> "GRT"
      [] kind = "EXPR_GEQ" -> "GEQ"
      [] kind = "EXPR_AND" -> "AND"
      [] kind = "EXPR_OR"  -> "OR"

\* flattenTupleTree: st.tuple collects the leaves; the count is its length
RECURSIVE flattenTupleTree(_, _, _)
flattenTupleTree(st, root, max) ==
    IF st.st.jumped THEN st
    ELSE IF root.kind = "NODE_EXPR" /\ root.ekind = "EXPR_PAIR"
    THEN flattenTupleTree(flattenTupleTree(st, root.head[1], max), root.head[2], max)
    ELSE IF max = Len(st.tuple)
    THEN [st EXCEPT !.st = reportErrorAndJump(st.st, FALSE, "Static buffer is too small")]
    ELSE [st EXCEPT !.tuple = Append(st.tuple, root)]

RECURSIVE emitInstrForNode(_, _, _)
RECURSIVE emitInstrForNodes(_, _, _, _)
RECURSIVE emitInstrForFuncCallNode(_, _, _, _)
RECURSIVE emitInstrForFuncNode(_, _, _)
RECURSIVE emitInstrForIfElseNode(_, _, _)
RECURSIVE emitInstrForAssignmentNode(_, _, _)
RECURSIVE emitAssignmentStores(_, _, _, _)
RECURSIVE emitListItems(_, _, _, _)
RECURSIVE emitMapItems(_, _, _, _, _)
RECURSIVE emitCompound(_, _, _, _)
RECURSIVE emitArguments(_, _, _)
RECURSIVE emitArguments_reversed(_, _, _)
RECURSIVE emitAssignmentStores_forward(_, _, _, _)
RECURSIVE emitCompound_no_pop(_, _, _, _)
RECURSIVE emitInstrForWhileNode_early_end(_, _, _)
RECURSIVE emitInstrForDoWhileNode_late_start(_, _, _)
RECURSIVE emitInstrForIfElseNode_early_else(_, _, _)
RECURSIVE emitInstrForWhileNode(_, _, _)
RECURSIVE emitInstrForDoWhileNode(_, _, _)

\* a loop that calls emitInstrForNode on nodes[i], nodes[i+1], ...
emitInstrForNodes(st, nodes, i, break_dest) ==
    IF i > Len(nodes) THEN st
    ELSE emitInstrForNodes(emitInstrForNode(st, nodes[i], break_dest),
                           nodes, i + 1, break_dest)

emitInstrForFuncCallNode(st, expr, break_dest, returns) ==
    LET s1 == emitInstrForNodes(st, expr.argv, 1, break_dest)
        s2 == emitInstrForNode(s1, expr.func, break_dest)
    IN  emitInstr(s2, "CALL", <<OpInt(expr.argc), OpInt(returns)>>)

\* the parameter loop walking argv from its last name to its first
emitArguments_reversed(st, argv, i) ==
    IF i > Len(argv) THEN st
    ELSE emitArguments_reversed(
             emitInstr_POP1(emitInstr_ASS(st, argv[Len(argv) - i + 1])), argv, i + 1)

\* the loop of emitInstrForFuncNode over the parameters
emitArguments(st, argv, i) ==
    IF i > Len(argv) THEN st
    ELSE emitArguments(emitInstr_POP1(emitInstr_ASS(st, argv[i])), argv, i + 1)

emitInstrForFuncNode(st, func, break_dest) ==
    LET s1 == newOffsetPromise(st)
        func_index == LastPromise(s1)
        s2 == newOffsetPromise(s1)
        jump_index == LastPromise(s2)
        s3 == emitInstr(s2, "PUSHFUN", <<OpPromise(func_index), OpInt(func.argc)>>)
        s4 == emitInstr_ASS(s3, func.name)
        s5 == emitInstr_POP1(s4)
        s6 == emitInstr(s5, "JUMP", <<OpPromise(jump_index)>>)
        s7 == Promise_Resolve(s6, func_index, ExeBuilder_InstrCount(s6))
        s8 == emitArguments(s7, func.argv, 1)
        s9 == emitInstrForNode(s8, func.body, 0)
        s10 == IF func.body.kind = "NODE_EXPR" THEN emitInstr_POP1(s9) ELSE s9
        s11 == emitInstr(s10, "RETURN", <<OpInt(0)>>)
        s12 == Promise_Resolve(s11, jump_index, ExeBuilder_InstrCount(s11))
    IN  Promise_Free(Promise_Free(s12, func_index), jump_index)

\* if/else with the else target resolved before the JUMP that ends the true
\* branch is emitted
emitInstrForIfElseNode_early_else(st, ifelse, break_dest) ==
    LET s0 == emitInstrForNode(st, ifelse.condition, break_dest)
    IN  IF ifelse.false_branch.kind # "NULL"
        THEN LET s1 == newOffsetPromise(s0)
                 else_offset == LastPromise(s1)
                 s2 == newOffsetPromise(s1)
                 done_offset == LastPromise(s2)
                 s3 == emitInstr(s2, "JUMPIFNOTANDPOP", <<OpPromise(else_offset)>>)
                 s4 == emitInstrForNode(s3, ifelse.true_branch, break_dest)
                 s5 == IF ifelse.true_branch.kind = "NODE_EXPR"
                       THEN emitInstr_POP(s4, 1) ELSE s4
                 s6 == Promise_Resolve(s5, else_offset, ExeBuilder_InstrCount(s5))
                 s7 == emitInstr(s6, "JUMP", <<OpPromise(done_offset)>>)
                 s8 == emitInstrForNode(s7, ifelse.false_branch, break_dest)
                 s9 == IF ifelse.false_branch.kind = "NODE_EXPR"
                       THEN emitInstr_POP1(s8) ELSE s8
                 s10 == Promise_Resolve(s9, done_offset, ExeBuilder_InstrCount(s9))
             IN  Promise_Free(Promise_Free(s10, else_offset), done_offset)
        ELSE LET s1 == newOffsetPromise(s0)
                 done_offset == LastPromise(s1)
                 s2 == emitInstr(s1, "JUMPIFNOTANDPOP", <<OpPromise(done_offset)>>)
                 s3 == emitInstrForNode(s2, ifelse.true_branch, break_dest)
                 s4 == IF ifelse.true_branch.kind = "NODE_EXPR"
                       THEN emitInstr_POP1(s3) ELSE s3
                 s5 == Promise_Resolve(s4, done_offset, ExeBuilder_InstrCount(s4))
             IN  Promise_Free(s5, done_offset)

emitInstrForIfElseNode(st, ifelse, break_dest) ==
    LET s0 == emitInstrForNode(st, ifelse.condition, break_dest)
    IN  IF ifelse.false_branch.kind # "NULL"
        THEN LET s1 == newOffsetPromise(s0)
                 else_offset == LastPromise(s1)
                 s2 == newOffsetPromise(s1)
                 done_offset == LastPromise(s2)
                 s3 == emitInstr(s2, "JUMPIFNOTANDPOP", <<OpPromise(else_offset)>>)
                 s4 == emitInstrForNode(s3, ifelse.true_branch, break_dest)
                 s5 == IF ifelse.true_branch.kind = "NODE_EXPR"
                       THEN emitInstr_POP(s4, 1) ELSE s4
                 s6 == emitInstr(s5, "JUMP", <<OpPromise(done_offset)>>)
                 s7 == Promise_Resolve(s6, else_offset, ExeBuilder_InstrCount(s6))
                 s8 == emitInstrForNode(s7, ifelse.false_branch, break_dest)
                 s9 == IF ifelse.false_branch.kind = "NODE_EXPR"
                       THEN emitInstr_POP1(s8) ELSE s8
                 s10 == Promise_Resolve(s9, done_offset, ExeBuilder_InstrCount(s9))
             IN  Promise_Free(Promise_Free(s10, else_offset), done_offset)
        ELSE LET s1 == newOffsetPromise(s0)
                 done_offset == LastPromise(s1)
                 s2 == emitInstr(s1, "JUMPIFNOTANDPOP", <<OpPromise(done_offset)>>)
                 s3 == emitInstrForNode(s2, ifelse.true_branch, break_dest)
                 s4 == IF ifelse.true_branch.kind = "NODE_EXPR"
                       THEN emitInstr_POP1(s3) ELSE s3
                 s5 == Promise_Resolve(s4, done_offset, ExeBuilder_InstrCount(s4))
             IN  Promise_Free(s5, done_offset)

\* the store loop walking the targets from the first to the last
emitAssignmentStores_forward(st, tuple, i, break_dest) ==
    LET tcount == Len(tuple)
    IN  IF i >= tcount \/ st.jumped THEN st
        ELSE
        LET tuple_item == tuple[i + 1]
            s1 == CASE tuple_item.kind = "NODE_EXPR" /\ tuple_item.ekind = "EXPR_IDENT" ->
                         emitInstr_ASS(st, tuple_item.val)
                    [] tuple_item.kind = "NODE_EXPR" /\ tuple_item.ekind = "EXPR_SELECT" ->
                         emitInstr(emitInstrForNode(
                                       emitInstrForNode(st, tuple_item.set, break_dest),
                                       tuple_item.idx, break_dest),
                                   "INSERT2", <<>>)
                    [] OTHER ->
                         reportErrorAndJump(st, FALSE,
                             "Assigning to something that it can't be assigned to")
            s2 == IF i + 1 < tcount THEN emitInstr_POP1(s1) ELSE s1
        IN  emitAssignmentStores_forward(s2, tuple, i + 1, break_dest)

\* the store loop of emitInstrForAssignmentNode, from iteration i
emitAssignmentStores(st, tuple, i, break_dest) ==
    LET tcount == Len(tuple)
    IN  IF i >= tcount \/ st.jumped THEN st
        ELSE
        LET tuple_item == tuple[(tcount - i - 1) + 1]
            s1 == CASE tuple_item.kind = "NODE_EXPR" /\ tuple_item.ekind = "EXPR_IDENT" ->
                         emitInstr_ASS(st, tuple_item.val)
                    [] tuple_item.kind = "NODE_EXPR" /\ tuple_item.ekind = "EXPR_SELECT" ->
                         emitInstr(emitInstrForNode(
                                       emitInstrForNode(st, tuple_item.set, break_dest),
                                       tuple_item.idx, break_dest),
                                   "INSERT2", <<>>)
                    [] OTHER ->
                         reportErrorAndJump(st, FALSE,
                             "Assigning to something that it can't be assigned to")
            s2 == IF i + 1 < tcount THEN emitInstr_POP1(s1) ELSE s1
        IN  emitAssignmentStores(s2, tuple, i + 1, break_dest)

emitInstrForAssignmentNode(st, asgn, break_dest) ==
    LET lop == asgn.head[1]
        rop == asgn.head[2]
        f   == flattenTupleTree([st |-> st, tuple |-> <<>>], lop, TupleMax)
        tcount == Len(f.tuple)
        s1  == IF f.st.jumped THEN f.st
               ELSE IF tcount = 1 THEN emitInstrForNode(f.st, rop, break_dest)
               ELSE IF rop.kind = "NODE_EXPR" /\ rop.ekind = "EXPR_CALL"
               THEN emitInstrForFuncCallNode(f.st, rop, break_dest, tcount)
               ELSE reportErrorAndJump(f.st, FALSE,
                        "Assigning to %d variables only 1 value")
    IN  emitAssignmentStores(s1, f.tuple, 0, break_dest)

\* the loop of EXPR_LIST over the items, item i (from 1) has index i - 1
emitListItems(st, items, i, break_dest) ==
    IF i > Len(items) THEN st
    ELSE LET s1 == emitInstr(st, "PUSHINT", <<OpInt(i - 1)>>)
             s2 == emitInstrForNode(s1, items[i], break_dest)
             s3 == emitInstr(s2, "INSERT", <<>>)
         IN  emitListItems(s3, items, i + 1, break_dest)

\* the loop of EXPR_MAP over the pairs
emitMapItems(st, keys, items, i, break_dest) ==
    IF i > Len(items) THEN st
    ELSE LET s1 == emitInstrForNode(st, keys[i], break_dest)
             s2 == emitInstrForNode(s1, items[i], break_dest)
             s3 == emitInstr(s2, "INSERT", <<>>)
         IN  emitMapItems(s3, keys, items, i + 1, break_dest)

\* the loop of NODE_COMP leaving the value of an expression statement on the
\* stack
emitCompound_no_pop(st, head, i, break_dest) ==
    IF i > Len(head) THEN st
    ELSE emitCompound_no_pop(emitInstrForNode(st, head[i], break_dest),
                             head, i + 1, break_dest)

\* the loop of NODE_COMP over the statements
emitCompound(st, head, i, break_dest) ==
    IF i > Len(head) THEN st
    ELSE LET s1 == emitInstrForNode(st, head[i], break_dest)
             s2 == IF head[i].kind = "NODE_EXPR" THEN emitInstr_POP1(s1) ELSE s1
         IN  emitCompound(s2, head, i + 1, break_dest)

\* case NODE_BREAK of emitInstrForNode; a NULL break_dest is promise 0
emitInstrForBreakNode(st, node, break_dest) ==
    LET s1 == IF break_dest = 0
              THEN reportErrorAndJump(st, FALSE, "Break not inside a loop")
              ELSE st
    IN  emitInstr(s1, "JUMP", <<OpPromise(break_dest)>>)

\* case NODE_WHILE with the end of the loop resolved before the JUMP back is
\* emitted
emitInstrForWhileNode_early_end(st, whl, break_dest) ==
    LET s1 == newOffsetPromise(st)
        start_offset == LastPromise(s1)
        s2 == newOffsetPromise(s1)
        end_offset == LastPromise(s2)
        s3 == Promise_Resolve(s2, start_offset, ExeBuilder_InstrCount(s2))
        s4 == emitInstrForNode(s3, whl.condition, break_dest)
        s5 == emitInstr(s4, "JUMPIFNOTANDPOP", <<OpPromise(end_offset)>>)
        s6 == emitInstrForNode(s5, whl.body, end_offset)
        s7 == IF whl.body.kind = "NODE_EXPR" THEN emitInstr_POP1(s6) ELSE s6
        s8 == Promise_Resolve(s7, end_offset, ExeBuilder_InstrCount(s7))
        s9 == emitInstr(s8, "JUMP", <<OpPromise(start_offset)>>)
    IN  Promise_Free(Promise_Free(s9, start_offset), end_offset)

\* case NODE_WHILE of emitInstrForNode
emitInstrForWhileNode(st, whl, break_dest) ==
    LET s1 == newOffsetPromise(st)
        start_offset == LastPromise(s1)
        s2 == newOffsetPromise(s1)
        end_offset == LastPromise(s2)
        s3 == Promise_Resolve(s2, start_offset, ExeBuilder_InstrCount(s2))
        s4 == emitInstrForNode(s3, whl.condition, break_dest)
        s5 == emitInstr(s4, "JUMPIFNOTANDPOP", <<OpPromise(end_offset)>>)
        s6 == emitInstrForNode(s5, whl.body, end_offset)
        s7 == IF whl.body.kind = "NODE_EXPR" THEN emitInstr_POP1(s6) ELSE s6
        s8 == emitInstr(s7, "JUMP", <<OpPromise(start_offset)>>)
        s9 == Promise_Resolve(s8, end_offset, ExeBuilder_InstrCount(s8))
    IN  Promise_Free(Promise_Free(s9, start_offset), end_offset)

\* case NODE_DOWHILE with start taken after the body
emitInstrForDoWhileNode_late_start(st, dowhl, break_dest) ==
    LET s1 == newOffsetPromise(st)
        end_offset == LastPromise(s1)
        s2 == emitInstrForNode(s1, dowhl.body, end_offset)
        s3 == IF dowhl.body.kind = "NODE_EXPR" THEN emitInstr_POP1(s2) ELSE s2
        start == ExeBuilder_InstrCount(s3)
        s4 == emitInstrForNode(s3, dowhl.condition, break_dest)
        s5 == emitInstr(s4, "JUMPIFANDPOP", <<OpInt(start)>>)
        s6 == Promise_Resolve(s5, end_offset, ExeBuilder_InstrCount(s5))
    IN  Promise_Free(s6, end_offset)

\* case NODE_DOWHILE with the end of the loop left unresolved
emitInstrForDoWhileNode_unresolved(st, dowhl, break_dest) ==
    LET s1 == newOffsetPromise(st)
        end_offset == LastPromise(s1)
        start == ExeBuilder_InstrCount(s1)
        s2 == emitInstrForNode(s1, dowhl.body, end_offset)
        s3 == IF dowhl.body.kind = "NODE_EXPR" THEN emitInstr_POP1(s2) ELSE s2
        s4 == emitInstrForNode(s3, dowhl.condition, break_dest)
        s5 == emitInstr(s4, "JUMPIFANDPOP", <<OpInt(start)>>)
    IN  Promise_Free(s5, end_offset)

\* case NODE_DOWHILE of emitInstrForNode
emitInstrForDoWhileNode(st, dowhl, break_dest) ==
    LET s1 == newOffsetPromise(st)
        end_offset == LastPromise(s1)
        start == ExeBuilder_InstrCount(s1)
        s2 == emitInstrForNode(s1, dowhl.body, end_offset)
        s3 == IF dowhl.body.kind = "NODE_EXPR" THEN emitInstr_POP1(s2) ELSE s2
        s4 == emitInstrForNode(s3, dowhl.condition, break_dest)
        s5 == emitInstr(s4, "JUMPIFANDPOP", <<OpInt(start)>>)
        s6 == Promise_Resolve(s5, end_offset, ExeBuilder_InstrCount(s5))
    IN  Promise_Free(s6, end_offset)

\* break_dest is the number of a promise, 0 for NULL
emitInstrForNode(st, node, break_dest) ==
    IF st.jumped THEN st
    ELSE
    CASE node.kind = "NODE_EXPR" ->
           ( CASE node.ekind = "EXPR_PAIR" ->
                    reportErrorAndJump(st, FALSE,
                        "Tuple outside of assignment or return statement")
               [] node.ekind \in OperKinds ->
                    emitInstr(emitInstrForNodes(st, node.head, 1, break_dest),
                              exprkind_to_opcode(node.ekind), <<>>)
               [] node.ekind = "EXPR_ASS" ->
                    emitInstrForAssignmentNode(st, node, break_dest)
               [] node.ekind = "EXPR_INT" ->
                    emitInstr(st, "PUSHINT", <<OpInt(node.val)>>)
               [] node.ekind = "EXPR_FLOAT" ->
                    emitInstr(st, "PUSHFLT", <<OpFloat(node.val)>>)
               [] node.ekind = "EXPR_STRING" ->
                    emitInstr(st, "PUSHSTR", <<OpString(node.val)>>)
               [] node.ekind = "EXPR_IDENT" ->
                    emitInstr(st, "PUSHVAR", <<OpString(node.val)>>)
               [] node.ekind = "EXPR_LIST" ->
                    emitListItems(emitInstr(st, "PUSHLST", <<OpInt(node.itemc)>>),
                                  node.items, 1, break_dest)
               [] node.ekind = "EXPR_MAP" ->
                    emitMapItems(emitInstr(st, "PUSHMAP", <<OpInt(node.itemc)>>),
                                 node.keys, node.items, 1, break_dest)
               [] node.ekind = "EXPR_CALL" ->
                    emitInstrForFuncCallNode(st, node, break_dest, 1)
               [] node.ekind = "EXPR_SELECT" ->
                    emitInstr(emitInstrForNode(
                                  emitInstrForNode(st, node.set, break_dest),
                                  node.idx, break_dest),
                              "SELECT", <<>>)
               [] node.ekind = "EXPR_NONE" -> emitInstr(st, "PUSHNNE", <<>>)
               [] node.ekind = "EXPR_TRUE" -> emitInstr(st, "PUSHTRU", <<>>)
               [] node.ekind = "EXPR_FALSE" -> emitInstr(st, "PUSHFLS", <<>>) )
      [] node.kind = "NODE_BREAK" ->
           emitInstrForBreakNode(st, node, break_dest)
      [] node.kind = "NODE_IFELSE" ->
           emitInstrForIfElseNode(st, node, break_dest)
      [] node.kind = "NODE_WHILE" ->
           emitInstrForWhileNode(st, node, break_dest)
      [] node.kind = "NODE_DOWHILE" ->
           emitInstrForDoWhileNode(st, node, break_dest)
      [] node.kind = "NODE_COMP" ->
           emitCompound(st, node.head, 1, break_dest)
      [] node.kind = "NODE_RETURN" ->
           LET f  == flattenTupleTree([st |-> st, tuple |-> <<>>], node.val, TupleMax)
               s1 == emitInstrForNodes(f.st, f.tuple, 1, break_dest)
           IN  emitInstr(s1, "RETURN", <<OpInt(Len(f.tuple))>>)
      [] node.kind = "NODE_FUNC" ->
           emitInstrForFuncNode(st, node, break_dest)

----------------------------------------------------------------------------
(* The programs that are compiled *)


\* return 1;
Prog_return == CompoundNode(<<ReturnNode(IntExpr(1))>>)

\* if x < 0: return -x; return x;
Prog_abs ==
    CompoundNode(<<
        IfElseNode(OperExpr("EXPR_LSS", <<IdentExpr("x"), IntExpr(0)>>), ReturnNode(OperExpr("EXPR_NEG", <<IdentExpr("x")>>)), NoNode),
        ReturnNode(IdentExpr("x")) >>)

\* while n > 0: { n = n - 1; }
Prog_while ==
    CompoundNode(<<
        WhileNode(OperExpr("EXPR_GRT", <<IdentExpr("n"), IntExpr(0)>>),
                  CompoundNode(<<
                      AssExpr(IdentExpr("n"),
                              OperExpr("EXPR_SUB", <<IdentExpr("n"), IntExpr(1)>>)) >>)) >>)

\* a, b = f(x);
Prog_tuple_assign ==
    CompoundNode(<<
        AssExpr(PairExpr(IdentExpr("a"), IdentExpr("b")),
                CallExpr(IdentExpr("f"), <<IdentExpr("x")>>)) >>)

\* fun g(x) return x+1;  g(2);
Prog_fun ==
    CompoundNode(<<
        FunctionNode("g", <<"x">>,
            ReturnNode(OperExpr("EXPR_ADD", <<IdentExpr("x"), IntExpr(1)>>))),
        CallExpr(IdentExpr("g"), <<IntExpr(2)>>) >>)

\* the empty program
Prog_empty == CompoundNode(<<>>)

\* break;
Prog_break_top == CompoundNode(<<BreakNode>>)

\* if x: break; else { break; }
Prog_break_if ==
    CompoundNode(<<
        IfElseNode(IdentExpr("x"), BreakNode, CompoundNode(<<BreakNode>>)) >>)

\* x; { y; break; }
Prog_break_block ==
    CompoundNode(<<IdentExpr("x"), CompoundNode(<<IdentExpr("y"), BreakNode>>)>>)

\* while c: fun f() break;
Prog_break_fun_in_loop ==
    CompoundNode(<<
        WhileNode(IdentExpr("c"), FunctionNode("f", <<>>, BreakNode)) >>)

\* do fun f(a) { if a: break; } while c;
Prog_break_fun_in_dowhile ==
    CompoundNode(<<
        DoWhileNode(
            FunctionNode("f", <<"a">>,
                CompoundNode(<<IfElseNode(IdentExpr("a"), BreakNode, NoNode)>>)),
            IdentExpr("c")) >>)

\* while c: break;  break;
Prog_break_after_loop ==
    CompoundNode(<<WhileNode(IdentExpr("c"), BreakNode), BreakNode>>)

\* while c: { if x: break; y; }
Prog_while_break ==
    CompoundNode(<<
        WhileNode(IdentExpr("c"),
            CompoundNode(<<IfElseNode(IdentExpr("x"), BreakNode, NoNode),
                           IdentExpr("y")>>)) >>)

\* do { break; } while c;
Prog_dowhile_break ==
    CompoundNode(<<DoWhileNode(CompoundNode(<<BreakNode>>), IdentExpr("c"))>>)

\* do x; while c;
Prog_dowhile_expr ==
    CompoundNode(<<DoWhileNode(IdentExpr("x"), IdentExpr("c"))>>)

\* while a: { while b: break; break; }
Prog_nested_loops ==
    CompoundNode(<<
        WhileNode(IdentExpr("a"),
            CompoundNode(<<WhileNode(IdentExpr("b"), BreakNode), BreakNode>>)) >>)

\* fun f() { while c: { fun g() 1; break; } }
Prog_loop_in_fun ==
    CompoundNode(<<
        FunctionNode("f", <<>>,
            CompoundNode(<<
                WhileNode(IdentExpr("c"),
                    CompoundNode(<<FunctionNode("g", <<>>, IntExpr(1)),
                                   BreakNode>>)) >>)) >>)

\* if c: x; else y;
Prog_ifelse_expr ==
    CompoundNode(<<IfElseNode(IdentExpr("c"), IdentExpr("x"), IdentExpr("y"))>>)

\* fun h(a, b) a;
Prog_fun_expr_body ==
    CompoundNode(<<FunctionNode("h", <<"a", "b">>, IdentExpr("a"))>>)

\* fun z() { }  fun w(p, q, r) { return p, q; }
Prog_fun_two ==
    CompoundNode(<<
        FunctionNode("z", <<>>, CompoundNode(<<>>)),
        FunctionNode("w", <<"p", "q", "r">>,
            CompoundNode(<<ReturnNode(PairExpr(IdentExpr("p"), IdentExpr("q")))>>)) >>)

\* a, b = 1;
Prog_arity_mismatch ==
    CompoundNode(<<AssExpr(PairExpr(IdentExpr("a"), IdentExpr("b")), IntExpr(1))>>)

\* 1 = x;
Prog_bad_target == CompoundNode(<<AssExpr(IntExpr(1), IdentExpr("x"))>>)

\* a, b;
Prog_bare_tuple == CompoundNode(<<PairExpr(IdentExpr("a"), IdentExpr("b"))>>)

\* a[i], b, c = f();
Prog_tuple_index ==
    CompoundNode(<<
        AssExpr(PairExpr(PairExpr(IndexSelectionExpr(IdentExpr("a"), IdentExpr("i")),
                                  IdentExpr("b")),
                         IdentExpr("c")),
                CallExpr(IdentExpr("f"), <<>>)) >>)

\* x = [1, y];  m = {"k": none};
Prog_literals ==
    CompoundNode(<<
        AssExpr(IdentExpr("x"), ListExpr(<<IntExpr(1), IdentExpr("y")>>)),
        AssExpr(IdentExpr("m"), MapExpr(<<StringExpr("k")>>, <<Expr("EXPR_NONE")>>)) >>)

RECURSIVE TupleOf(_)
\* the tree the parser builds for t, t, ..., t with m names: pairs nested to
\* the left
TupleOf(m) == IF m = 1 THEN IdentExpr("t") ELSE PairExpr(TupleOf(m - 1), IdentExpr("t"))

\* t, ..., t = f();  with 32 targets
Prog_assign_32 ==
    CompoundNode(<<AssExpr(TupleOf(TupleMax), CallExpr(IdentExpr("f"), <<>>))>>)

\* t, ..., t = f();  with 33 targets
Prog_assign_33 ==
    CompoundNode(<<AssExpr(TupleOf(TupleMax + 1), CallExpr(IdentExpr("f"), <<>>))>>)

\* return t, ..., t;  with 32 values
Prog_return_32 == CompoundNode(<<ReturnNode(TupleOf(TupleMax))>>)

\* return t, ..., t;  with 33 values
Prog_return_33 == CompoundNode(<<ReturnNode(TupleOf(TupleMax + 1))>>)

\* return t, (t, ..., t);  with 34 values, the pairs nested to the right
Prog_return_34 ==
    CompoundNode(<<ReturnNode(PairExpr(IdentExpr("t"), TupleOf(TupleMax + 1)))>>)

\* x; if a: { if b: y; } else if c: return z; else { }
Prog_ifelse_nested ==
    CompoundNode(<<
        IdentExpr("x"),
        IfElseNode(IdentExpr("a"),
            CompoundNode(<<IfElseNode(IdentExpr("b"), IdentExpr("y"), NoNode)>>),
            IfElseNode(IdentExpr("c"), ReturnNode(IdentExpr("z")),
                       CompoundNode(<<>>))) >>)

\* y; do { while a: break; if b: break; x; } while c;
Prog_dowhile_nested ==
    CompoundNode(<<
        IdentExpr("y"),
        DoWhileNode(
            CompoundNode(<<WhileNode(IdentExpr("a"), BreakNode),
                           IfElseNode(IdentExpr("b"), BreakNode, NoNode),
                           IdentExpr("x")>>),
            IdentExpr("c")) >>)

\* while a: do break; while b;
Prog_while_dowhile ==
    CompoundNode(<<
        WhileNode(IdentExpr("a"), DoWhileNode(BreakNode, IdentExpr("b"))) >>)

\* while a: x;
Prog_while_expr == CompoundNode(<<WhileNode(IdentExpr("a"), IdentExpr("x"))>>)

ProgNames ==
    { "return", "abs", "while", "tuple_assign", "fun", "empty", "break_top",
      "break_if", "break_block", "break_fun_in_loop", "break_fun_in_dowhile",
      "break_after_loop", "while_break", "dowhile_break", "dowhile_expr",
      "nested_loops", "loop_in_fun", "ifelse_expr", "fun_expr_body", "fun_two",
      "arity_mismatch", "bad_target", "bare_tuple", "tuple_index", "literals",
      "assign_32", "assign_33", "return_32", "return_33", "return_34",
      "ifelse_nested", "dowhile_nested", "while_dowhile", "while_expr" }

\* ast->root of the program called name
Program(name) ==
    CASE name = "return"               -> Prog_return
      [] name = "abs"                  -> Prog_abs
      [] name = "while"                -> Prog_while
      [] name = "tuple_assign"         -> Prog_tuple_assign
      [] name = "fun"                  -> Prog_fun
      [] name = "empty"                -> Prog_empty
      [] name = "break_top"            -> Prog_break_top
      [] name = "break_if"             -> Prog_break_if
      [] name = "break_block"          -> Prog_break_block
      [] name = "break_fun_in_loop"    -> Prog_break_fun_in_loop
      [] name = "break_fun_in_dowhile" -> Prog_break_fun_in_dowhile
      [] name = "break_after_loop"     -> Prog_break_after_loop
      [] name = "while_break"          -> Prog_while_break
      [] name = "dowhile_break"        -> Prog_dowhile_break
      [] name = "dowhile_expr"         -> Prog_dowhile_expr
      [] name = "nested_loops"         -> Prog_nested_loops
      [] name = "loop_in_fun"          -> Prog_loop_in_fun
      [] name = "ifelse_expr"          -> Prog_ifelse_expr
      [] name = "fun_expr_body"        -> Prog_fun_expr_body
      [] name = "fun_two"              -> Prog_fun_two
      [] name = "arity_mismatch"       -> Prog_arity_mismatch
      [] name = "bad_target"           -> Prog_bad_target
      [] name = "bare_tuple"           -> Prog_bare_tuple
      [] name = "tuple_index"          -> Prog_tuple_index
      [] name = "literals"             -> Prog_literals
      [] name = "assign_32"            -> Prog_assign_32
      [] name = "assign_33"            -> Prog_assign_33
      [] name = "return_32"            -> Prog_return_32
      [] name = "return_33"            -> Prog_return_33
      [] name = "return_34"            -> Prog_return_34
      [] name = "ifelse_nested"        -> Prog_ifelse_nested
      [] name = "dowhile_nested"       -> Prog_dowhile_nested
      [] name = "while_dowhile"        -> Prog_while_dowhile
      [] name = "while_expr"           -> Prog_while_expr

----------------------------------------------------------------------------
(* compile as a state machine *)

\* the operands of kind PROMISE of the instructions of code
PromisesOf(code) ==
    UNION { { code[i].opv[j].as_int :
                j \in { n \in 1..Len(code[i].opv) : code[i].opv[n].type = "OPTP_PROMISE" } }
            : i \in 1..Len(code) }

\* ExeBuilder_Finalize: fails when it is the call chosen to fail or when an
\* operand is a promise that was not resolved, and then reports an internal
\* error; else every PROMISE operand becomes the INT the promise holds
ExeBuilder_Finalize(st) ==
    LET n == st.ncalls + 1
        unresolved == \E q \in PromisesOf(st.code) : st.promises[q].resolved = 0
    IN  IF n = st.fail_at \/ unresolved
        THEN [ok |-> FALSE, exe |-> <<>>,
              st |-> [st EXCEPT !.ncalls = n,
                                !.error = Error_Report(st.error, TRUE,
                                    IF unresolved THEN "Unresolved promise"
                                    ELSE "No memory")]]
        ELSE [ok |-> TRUE,
              exe |-> [i \in 1..Len(st.code) |->
                         Instr(st.code[i].opcode,
                               [j \in 1..Len(st.code[i].opv) |->
                                  IF st.code[i].opv[j].type = "OPTP_PROMISE"
                                  THEN OpInt(st.promises[st.code[i].opv[j].as_int].value)
                                  ELSE st.code[i].opv[j]])],
              st |-> [st EXCEPT !.ncalls = n]]

\* freeCodegenContext: the number of BPAlloc_Free calls it makes
freeCodegenContext(c) == IF c.own_alloc THEN 1 ELSE 0

\* what a longjmp to the jmp_buf filled in by setOrcatchJump, which has
\* returned since, can do: resume after setjmp as intended ("caught"), return
\* from the dead frame into compile behind the call in progress ("stale"), or
\* end the program ("crash")
LongjmpOutcomes == {"caught", "stale", "crash"}

\* okNowJump(ctx) called while compile is at stage at, with context c
okNowJump(o, at, c) ==
    CASE o = "caught" ->
           /\ pc' = "returned"
           /\ result' = "NULL"
           /\ frees' = frees + freeCodegenContext(c)
           /\ ctx' = c
      [] o = "stale" /\ at = "emit" ->
           /\ pc' = "tail"
           /\ ctx' = [c EXCEPT !.jumped = FALSE]
           /\ UNCHANGED <<result, frees>>
      [] o = "stale" /\ at = "tail" ->
           /\ pc' = "finalize"
           /\ ctx' = [c EXCEPT !.jumped = FALSE]
           /\ UNCHANGED <<result, frees>>
      [] o = "stale" /\ at = "finalize" ->
           /\ pc' = "returned"
           /\ result' = "wild"
           /\ ctx' = c
           /\ UNCHANGED frees
      [] OTHER ->
           /\ pc' = "crashed"
           /\ ctx' = c
           /\ UNCHANGED <<result, frees>>

\* compile up to setOrcatchJump: the asserts and initCodegenContext
compile_enter(prog, alloc_given, fail_at) ==
    /\ pc = "idle"
    /\ input' = [prog |-> prog, alloc_given |-> alloc_given, fail_at |-> fail_at]
    /\ LET n1 == IF alloc_given THEN 0 ELSE 1
           n2 == n1 + 1
           c0 == [NoCtx EXCEPT !.fail_at = fail_at]
       IN  IF ~alloc_given /\ n1 = fail_at
           THEN \* BPAlloc_Init failed
                /\ ctx' = [c0 EXCEPT !.ncalls = n1,
                                     !.error = Error_Report(c0.error, TRUE, "No memory")]
                /\ pc' = "returned"
                /\ result' = "NULL"
                /\ UNCHANGED frees
           ELSE IF n2 = fail_at
           THEN \* ExeBuilder_New failed
                /\ ctx' = [c0 EXCEPT !.ncalls = n2, !.own_alloc = ~alloc_given]
                /\ frees' = frees + (IF ~alloc_given THEN 1 ELSE 0)
                /\ pc' = "returned"
                /\ result' = "NULL"
           ELSE /\ ctx' = [c0 EXCEPT !.ncalls = n2, !.own_alloc = ~alloc_given]
                /\ pc' = "emit"
                /\ UNCHANGED <<result, frees>>
    /\ UNCHANGED <<exe, mapvars, clvars>>

\* emitInstrForNode(&ctx, ast->root, NULL)
compile_emit ==
    /\ pc = "emit"
    /\ LET c == emitInstrForNode(ctx, Program(input.prog), 0)
       IN  IF c.jumped
           THEN \E o \in LongjmpOutcomes : okNowJump(o, "emit", c)
           ELSE /\ pc' = "tail"
                /\ ctx' = c
                /\ UNCHANGED <<result, frees>>
    /\ UNCHANGED <<input, exe, mapvars, clvars>>

\* the RETURN 0 that compile emits after the walk
compile_tail ==
    /\ pc = "tail"
    /\ LET c == emitInstr(ctx, "RETURN", <<OpInt(0)>>)
       IN  IF c.jumped
           THEN \E o \in LongjmpOutcomes : okNowJump(o, "tail", c)
           ELSE /\ pc' = "finalize"
                /\ ctx' = c
                /\ UNCHANGED <<result, frees>>
    /\ UNCHANGED <<input, exe, mapvars, clvars>>

\* makeExecutableAndFreeCodegenContext
compile_finalize ==
    /\ pc = "finalize"
    /\ LET r == ExeBuilder_Finalize(ctx)
       IN  IF ~r.ok
           THEN /\ \E o \in LongjmpOutcomes : okNowJump(o, "finalize", r.st)
                /\ UNCHANGED exe
           ELSE /\ exe' = r.exe
                /\ ctx' = r.st
                /\ frees' = frees + freeCodegenContext(r.st)
                /\ result' = "exe"
                /\ pc' = "returned"
    /\ UNCHANGED <<input, mapvars, clvars>>

CompileInit ==
    /\ pc = "idle"
    /\ input = NoInput
    /\ ctx = NoCtx
    /\ result = "none"
    /\ exe = <<>>
    /\ frees = 0
    /\ map = NoMap
    /\ layout = "apart"
    /\ mstatus = "nomap"
    /\ last = NoCall
    /\ latest = [k \in Keys |-> "NULL"]
    /\ order = <<>>
    /\ closure = <<>>
    /\ csel = [op |-> "none", key |-> "", ret |-> "NULL", err |-> FALSE,
               consulted |-> 0]

CompileNext ==
    \/ \E prog \in ProgNames, alloc_given \in BOOLEAN, fail_at \in 0..MaxFailAt :
          compile_enter(prog, alloc_given, fail_at)
    \/ compile_emit
    \/ compile_tail
    \/ compile_finalize

CompileSpec == CompileInit /\ [][CompileNext]_vars

-----------------------------------------------------------------------------
(* Properties of compile *)

\* C2: compile returns an Executable or NULL; when it returns NULL the error
\* has been filled out, whatever the failure path, and when an error was
\* reported during the pass it returns NULL
C2_NullIffErrorReported ==
    pc = "returned" =>
        /\ result \in {"exe", "NULL"}
        /\ (result = "NULL" => ctx.error.occurred)
        /\ (ctx.error.occurred => result = "NULL")

\* C3: when compile gets to ExeBuilder_Finalize without an error, every
\* promise that is an operand of an emitted instruction has been resolved
\* exactly once, and the Executable returned holds no PROMISE operand
C3_PromisesResolvedOnce ==
    /\ (pc = "finalize" /\ ~ctx.error.occurred) =>
           \A q \in PromisesOf(ctx.code) : ctx.promises[q].resolved = 1
    /\ (pc = "returned" /\ result = "exe" /\ ~ctx.error.occurred) =>
           /\ \A q \in PromisesOf(ctx.code) : ctx.promises[q].resolved = 1
           /\ PromisesOf(exe) = {}

C3_Witness ==
    /\ pc = "finalize"
    /\ ~ctx.error.occurred
    /\ Cardinality(PromisesOf(ctx.code)) >= 6
    /\ \E i \in 1..Len(ctx.code) : ctx.code[i].opcode = "PUSHFUN"
    /\ \E i \in 1..Len(ctx.code) : ctx.code[i].opcode = "JUMPIFNOTANDPOP"

\* the instructions the program a, b = f(x); is said to compile to
TupleAssignWithoutPop ==
    << Instr("PUSHVAR", <<OpString("x")>>),
       Instr("PUSHVAR", <<OpString("f")>>),
       Instr("CALL", <<OpInt(1), OpInt(2)>>),
       Instr("ASS", <<OpString("b")>>),
       Instr("POP", <<OpInt(1)>>),
       Instr("ASS", <<OpString("a")>>),
       Instr("RETURN", <<OpInt(0)>> ) >>

\* the instructions compile emits for it: the block adds the POP 1 of an
\* expression statement after the assignment
TupleAssignWithPop ==
    << Instr("PUSHVAR", <<OpString("x")>>),
       Instr("PUSHVAR", <<OpString("f")>>),
       Instr("CALL", <<OpInt(1), OpInt(2)>>),
       Instr("ASS", <<OpString("b")>>),
       Instr("POP", <<OpInt(1)>>),
       Instr("ASS", <<OpString("a")>>),
       Instr("POP", <<OpInt(1)>>),
       Instr("RETURN", <<OpInt(0)>> ) >>

\* a[i], b, c = f(); with its three stores, last target first
TupleIndexCode ==
    << Instr("PUSHVAR", <<OpString("f")>>),
       Instr("CALL", <<OpInt(0), OpInt(3)>>),
       Instr("ASS", <<OpString("c")>>),
       Instr("POP", <<OpInt(1)>>),
       Instr("ASS", <<OpString("b")>>),
       Instr("POP", <<OpInt(1)>>),
       Instr("PUSHVAR", <<OpString("a")>>),
       Instr("PUSHVAR", <<OpString("i")>>),
       Instr("INSERT2", <<>>),
       Instr("POP", <<OpInt(1)>>),
       Instr("RETURN", <<OpInt(0)>> ) >>

\* the code of the statement alone, without the block around it
AssignmentAlone(prog) ==
    emitInstrForNode([NoCtx EXCEPT !.ncalls = 2], Program(prog).head[1], 0).code

\* C6 as stated: a, b = f(x); compiles to PUSHVAR x; PUSHVAR f; CALL 1,2;
\* ASS b; POP 1; ASS a; RETURN 0
C6_TupleAssignSequence ==
    (pc = "returned" /\ result = "exe" /\ input.prog = "tuple_assign") =>
        exe = TupleAssignWithoutPop

\* C6 amended: a, b = f(x); compiles to PUSHVAR x; PUSHVAR f; CALL 1,2; ASS b;
\* POP 1; ASS a; POP 1; RETURN 0. The call is lowered with returns = m, the
\* targets are stored from the last to the first with a POP 1 between
\* successive stores, the assignment emits none after its last store, and the
\* enclosing block emits the POP 1 of an expression statement after it
C6_TupleAssignSequenceWithPop ==
    (pc = "returned" /\ result = "exe" /\ ~ctx.error.occurred) =>
        /\ input.prog = "tuple_assign" =>
               /\ exe = TupleAssignWithPop
               /\ AssignmentAlone("tuple_assign") = SubSeq(TupleAssignWithPop, 1, 6)
        /\ input.prog = "tuple_index" =>
               /\ exe = TupleIndexCode
               /\ AssignmentAlone("tuple_index") = SubSeq(TupleIndexCode, 1, 9)

C6_Witness ==
    /\ pc = "returned"
    /\ result = "exe"
    /\ ~ctx.error.occurred
    /\ input.prog = "tuple_assign"
    /\ Len(exe) = 8
    /\ exe[3] = Instr("CALL", <<OpInt(1), OpInt(2)>>)

RECURSIVE BreakOutsideLoop(_, _)
\* node holds a break that no while or do-while of the same function body
\* encloses; in_loop tells whether node itself lies in such a loop
BreakOutsideLoop(node, in_loop) ==
    CASE node.kind = "NODE_BREAK" -> ~in_loop
      [] node.kind = "NODE_IFELSE" ->
           \/ BreakOutsideLoop(node.true_branch, in_loop)
           \/ BreakOutsideLoop(node.false_branch, in_loop)
      [] node.kind \in {"NODE_WHILE", "NODE_DOWHILE"} ->
           BreakOutsideLoop(node.body, TRUE)
      [] node.kind = "NODE_COMP" ->
           \E i \in 1..Len(node.head) : BreakOutsideLoop(node.head[i], in_loop)
      [] node.kind = "NODE_FUNC" -> BreakOutsideLoop(node.body, FALSE)
      [] OTHER -> FALSE

\* C7: when the program holds a break outside the loops of its function body
\* and no allocation fails, compile returns NULL with a user error and has
\* emitted no JUMP for that break
C7_BreakOutsideLoopFails ==
    (/\ pc = "returned"
     /\ input.fail_at = 0
     /\ BreakOutsideLoop(Program(input.prog), FALSE)) =>
        /\ result = "NULL"
        /\ ctx.error.occurred
        /\ ~ctx.error.internal
        /\ ctx.error.message = "Break not inside a loop"
        /\ \A i \in 1..Len(ctx.code) :
               ctx.code[i] # Instr("JUMP", <<OpPromise(0)>>)

\* C8: when compile returns, a scratch allocator it created has been freed
\* exactly once, and one the caller supplied has not been freed
C8_ScratchAllocatorFreedOnce ==
    pc = "returned" =>
        /\ (input.alloc_given => frees = 0)
        /\ (ctx.own_alloc => frees = 1)
        /\ (~input.alloc_given /\ ~ctx.own_alloc => frees = 0)

RECURSIVE FuncNodes(_)
RECURSIVE FuncNodesOfList(_, _)
\* the function definitions of a tree in the order compile meets them
FuncNodes(node) ==
    CASE node.kind = "NODE_FUNC" -> <<node>> \o FuncNodes(node.body)
      [] node.kind = "NODE_IFELSE" ->
           FuncNodes(node.true_branch) \o FuncNodes(node.false_branch)
      [] node.kind \in {"NODE_WHILE", "NODE_DOWHILE"} -> FuncNodes(node.body)
      [] node.kind = "NODE_COMP" -> FuncNodesOfList(node.head, 1)
      [] OTHER -> <<>>

FuncNodesOfList(head, i) ==
    IF i > Len(head) THEN <<>>
    ELSE FuncNodes(head[i]) \o FuncNodesOfList(head, i + 1)

\* the places of the PUSHFUN instructions of code
PushFunPlaces(code) == { i \in 1..Len(code) : code[i].opcode = "PUSHFUN" }

\* the place of the n-th PUSHFUN of code
NthPushFun(code, n) ==
    CHOOSE p \in PushFunPlaces(code) :
        Cardinality({ q \in PushFunPlaces(code) : q < p }) = n - 1

\* code holds the lowering of func from place p on; instruction index i is
\* place i + 1 of the sequence
FuncLayout(code, p, func) ==
    LET k == func.argc
        F == code[p].opv[1].as_int
        J == IF p + 3 <= Len(code) /\ Len(code[p + 3].opv) = 1
             THEN code[p + 3].opv[1].as_int ELSE 0
    IN  /\ p + 3 <= Len(code)
        /\ code[p] = Instr("PUSHFUN", <<OpInt(F), OpInt(k)>>)
        /\ code[p + 1] = Instr("ASS", <<OpString(func.name)>>)
        /\ code[p + 2] = Instr("POP", <<OpInt(1)>>)
        /\ code[p + 3] = Instr("JUMP", <<OpInt(J)>>)
        /\ F = (p - 1) + 4
        /\ J >= F + 2 * k + 1
        /\ J <= Len(code)
        /\ \A j \in 1..k :
               /\ code[F + 2 * (j - 1) + 1] = Instr("ASS", <<OpString(func.argv[j])>>)
               /\ code[F + 2 * (j - 1) + 2] = Instr("POP", <<OpInt(1)>>)
        /\ code[J] = Instr("RETURN", <<OpInt(0)>>)
        /\ func.body.kind = "NODE_EXPR" =>
               /\ J >= F + 2 * k + 2
               /\ code[J - 1] = Instr("POP", <<OpInt(1)>>)
        /\ func.body = CompoundNode(<<>>) => J = F + 2 * k + 1

\* fun g(x) return x+1;  g(2);  with F = 4 and J = 11
Scenario5 ==
    << Instr("PUSHFUN", <<OpInt(4), OpInt(1)>>),
       Instr("ASS", <<OpString("g")>>),
       Instr("POP", <<OpInt(1)>>),
       Instr("JUMP", <<OpInt(11)>>),
       Instr("ASS", <<OpString("x")>>),
       Instr("POP", <<OpInt(1)>>),
       Instr("PUSHVAR", <<OpString("x")>>),
       Instr("PUSHINT", <<OpInt(1)>>),
       Instr("ADD", <<>>),
       Instr("RETURN", <<OpInt(1)>>),
       Instr("RETURN", <<OpInt(0)>>),
       Instr("PUSHINT", <<OpInt(2)>>),
       Instr("PUSHVAR", <<OpString("g")>>),
       Instr("CALL", <<OpInt(1), OpInt(1)>>),
       Instr("POP", <<OpInt(1)>>),
       Instr("RETURN", <<OpInt(0)>>) >>

\* C10: in the Executable of a program that compiles, every function
\* definition is laid out as PUSHFUN F,k; ASS name; POP 1; JUMP J; at F one
\* ASS ai; POP 1 per parameter in declaration order; the body; a POP 1 when the
\* body is an expression; RETURN 0 at J - 1; and fun g(x) return x+1; g(2);
\* gives the 16 instructions of scenario 5 with F = 4 and J = 11
C10_FunctionLowering ==
    (pc = "returned" /\ result = "exe" /\ ~ctx.error.occurred) =>
        LET funcs == FuncNodes(Program(input.prog))
        IN  /\ Cardinality(PushFunPlaces(exe)) = Len(funcs)
            /\ \A n \in 1..Len(funcs) : FuncLayout(exe, NthPushFun(exe, n), funcs[n])
            /\ input.prog = "fun" => exe = Scenario5

C10_Witness ==
    /\ pc = "returned"
    /\ result = "exe"
    /\ ~ctx.error.occurred
    /\ input.prog = "fun"
    /\ Len(exe) = 16
    /\ exe[1] = Instr("PUSHFUN", <<OpInt(4), OpInt(1)>>)
    /\ exe[4] = Instr("JUMP", <<OpInt(11)>>)

RECURSIVE TupleLeaves(_)
\* the number of elements a tuple expression flattens to
TupleLeaves(root) ==
    IF root.kind = "NODE_EXPR" /\ root.ekind = "EXPR_PAIR"
    THEN TupleLeaves(root.head[1]) + TupleLeaves(root.head[2])
    ELSE 1

\* the tuple that the first statement of a program flattens: the left-hand
\* side of an assignment or the value of a return
FlattenedTuple(prog) ==
    LET stmt == Program(prog).head[1]
    IN  IF stmt.kind = "NODE_RETURN" THEN stmt.val ELSE stmt.head[1]

\* the programs whose first statement is a tuple assignment or a return
TuplePrograms ==
    { "return", "tuple_assign", "tuple_index", "arity_mismatch", "bad_target",
      "assign_32", "assign_33", "return_32", "return_33", "return_34" }

\* C11: when no allocation fails, a left-hand side or a return value of m
\* elements compiles without a tuple-size error for m <= 32, and for m >= 33
\* compile fails with the user error of the static buffer; flattening never
\* stores more than 32 elements
C11_TupleArityBound ==
    (pc = "returned" /\ input.fail_at = 0 /\ input.prog \in TuplePrograms) =>
        LET root == FlattenedTuple(input.prog)
            m == TupleLeaves(root)
            f == flattenTupleTree([st |-> [NoCtx EXCEPT !.ncalls = 2], tuple |-> <<>>],
                                  root, TupleMax)
        IN  /\ Len(f.tuple) <= 32
            /\ m <= 32 => /\ ctx.error.message # "Static buffer is too small"
                          /\ ~f.st.jumped
                          /\ Len(f.tuple) = m
            /\ m >= 33 => /\ result = "NULL"
                          /\ ctx.error.occurred
                          /\ ~ctx.error.internal
                          /\ ctx.error.message = "Static buffer is too small"

-----------------------------------------------------------------------------
(* The closure: a chain of scope maps *)

\* the variables that a scope may bind, and a key that cannot be hashed
ClosureKeys == {"k0", "k1", "kbad"}

\* the objects held in vars: a map with its bindings ("NULL" for a name it
\* does not bind), or an object whose type has no select
ScopeVars ==
    { [selectable |-> TRUE, binds |-> b] : b \in [{"k0", "k1"} -> {"NULL"} \cup Vals] }
    \cup { [selectable |-> FALSE, binds |-> [k \in {"k0", "k1"} |-> "NULL"]] }

\* Object_Select(closure->vars, key, heap, err): the value, NULL for a miss,
\* or NULL with err->occurred set
Object_Select(scope_vars, key) ==
    IF ~scope_vars.selectable \/ key \in UnhashableKeys
    THEN [ret |-> "NULL", err |-> TRUE]
    ELSE [ret |-> scope_vars.binds[key], err |-> FALSE]

NoClosureCall == [op |-> "none", key |-> "", ret |-> "NULL", err |-> FALSE,
                  consulted |-> 0]

RECURSIVE closure_select_ignores_error(_, _, _, _)
\* the loop of select going on to prev after an error
closure_select_ignores_error(chain, i, selected, key) ==
    IF i <= Len(chain) /\ selected = "NULL"
    THEN LET r == Object_Select(chain[i], key)
         IN  closure_select_ignores_error(chain, i + 1, r.ret, key)
    ELSE [ret |-> selected, err |-> FALSE, consulted |-> i - 1]

RECURSIVE closure_select(_, _, _, _)
\* the loop of select of o_closure.c: closure is chain[i], NULL past the end;
\* consulted counts the calls of Object_Select
closure_select(chain, i, selected, key) ==
    IF i <= Len(chain) /\ selected = "NULL"
    THEN LET r == Object_Select(chain[i], key)
         IN  IF r.err
             THEN [ret |-> "NULL", err |-> TRUE, consulted |-> i]
             ELSE closure_select(chain, i + 1, r.ret, key)
    ELSE [ret |-> selected, err |-> FALSE, consulted |-> i - 1]

ClosureInit ==
    /\ closure = <<>>
    /\ csel = NoClosureCall
    /\ pc = "idle"
    /\ input = [prog |-> "none", alloc_given |-> FALSE, fail_at |-> 0]
    /\ ctx = <<>>
    /\ result = "none"
    /\ exe = <<>>
    /\ frees = 0
    /\ map = NoMap
    /\ layout = "apart"
    /\ mstatus = "nomap"
    /\ last = NoCall
    /\ latest = [k \in Keys |-> "NULL"]
    /\ order = <<>>

\* Object_NewClosure(parent, new_map, heap, error) with the current closure
\* as parent: the new closure becomes the current one
NewClosure(new_map) ==
    /\ Len(closure) < MaxChain
    /\ closure' = <<new_map>> \o closure
    /\ csel' = [NoClosureCall EXCEPT !.op = "new"]
    /\ UNCHANGED <<mapvars, cgvars>>

\* select(self, key, heap, err) on the current closure, err clear on entry
ClosureSelect(key) ==
    /\ Len(closure) >= 1
    /\ LET r == closure_select(closure, 1, "NULL", key)
       IN  csel' = [op |-> "select", key |-> key, ret |-> r.ret, err |-> r.err,
                    consulted |-> r.consulted]
    /\ UNCHANGED <<closure, mapvars, cgvars>>

ClosureNext ==
    \/ \E new_map \in ScopeVars : NewClosure(new_map)
    \/ \E key \in ClosureKeys : ClosureSelect(key)

ClosureSpec == ClosureInit /\ [][ClosureNext]_vars

\* the scopes, innermost first, in which vars.select(key) gives a value or
\* reports an error
Decisive(key) ==
    { i \in 1..Len(closure) :
        Object_Select(closure[i], key).err \/ Object_Select(closure[i], key).ret # "NULL" }

\* C12: select consults the scopes from the innermost outward and stops at the
\* first one that gives a value or reports an error: it returns that value,
\* or NULL with the error set and no outer scope consulted; when no scope
\* binds the key it consults them all and returns NULL without an error
C12_ClosureSelectInnermostFirst ==
    csel.op = "select" =>
        IF Decisive(csel.key) = {}
        THEN /\ csel.ret = "NULL"
             /\ ~csel.err
             /\ csel.consulted = Len(closure)
        ELSE LET j == CHOOSE i \in Decisive(csel.key) :
                          \A n \in Decisive(csel.key) : i <= n
                 r == Object_Select(closure[j], csel.key)
             IN  /\ csel.consulted = j
                 /\ csel.err = r.err
                 /\ csel.ret = r.ret

\* an inner scope that does not bind the key, a middle one that binds it and
\* an outer one that binds it to something else
C12_Witness ==
    /\ csel.op = "select"
    /\ csel.key = "k1"
    /\ Len(closure) = 3
    /\ closure[1].selectable /\ closure[1].binds["k1"] = "NULL"
    /\ closure[2].selectable /\ closure[2].binds["k1"] = "v2"
    /\ closure[3].selectable /\ closure[3].binds["k1"] = "v1"
    /\ csel.ret = "v2"
    /\ csel.consulted = 2

-----------------------------------------------------------------------------
(* The depth of the stack along the emitted code *)

\* the values an instruction takes from the stack, from the instruction table
Need(ins) ==
    CASE ins.opcode \in {"NOT", "POS", "NEG", "ASS", "JUMPIFNOTANDPOP", "JUMPIFANDPOP"} -> 1
      [] ins.opcode \in {"ADD", "SUB", "MUL", "DIV", "EQL", "NQL", "LSS", "LEQ",
                         "GRT", "GEQ", "AND", "OR", "SELECT"} -> 2
      [] ins.opcode \in {"INSERT", "INSERT2"} -> 3
      [] ins.opcode \in {"POP", "RETURN"} -> ins.opv[1].as_int
      [] ins.opcode = "CALL" -> ins.opv[1].as_int + 1
      [] OTHER -> 0

\* the values an instruction leaves on the stack, from the instruction table
Gives(ins) ==
    CASE ins.opcode \in {"PUSHINT", "PUSHFLT", "PUSHSTR", "PUSHVAR", "PUSHNNE",
                         "PUSHTRU", "PUSHFLS", "PUSHLST", "PUSHMAP", "PUSHFUN",
                         "NOT", "POS", "NEG", "ASS",
                         "ADD", "SUB", "MUL", "DIV", "EQL", "NQL", "LSS", "LEQ",
                         "GRT", "GEQ", "AND", "OR", "SELECT", "INSERT", "INSERT2"} -> 1
      [] ins.opcode = "CALL" -> ins.opv[2].as_int
      [] OTHER -> 0

Effect(ins) == Gives(ins) - Need(ins)

Jumps == {"JUMP", "JUMPIFNOTANDPOP", "JUMPIFANDPOP"}

\* place i holds the JUMP over the code of a function: PUSHFUN; ASS; POP 1; JUMP
SkipsFunction(code, i) ==
    /\ code[i].opcode = "JUMP"
    /\ i >= 4
    /\ code[i - 3].opcode = "PUSHFUN"

RECURSIVE DepthScan(_, _, _, _, _, _)
\* the depth before every place of code and after the last one, d being the
\* depth before place i. The code of a function runs in a frame of its own
\* that starts with its argc arguments; frames lists, innermost first, the
\* index where the code of a function ends and the depth around it. ok tells
\* that every function frame ended with depth 0; the scan stops when one did
\* not
DepthScan(code, i, d, frames, acc, ok) ==
    LET ends == frames # <<>> /\ Head(frames)[1] = i - 1
        d0   == IF ends THEN Head(frames)[2] ELSE d
        fr0  == IF ends THEN Tail(frames) ELSE frames
        ok0  == ok /\ (ends => d = 0)
    IN  IF ~ok0 \/ Len(acc) # i - 1
        THEN [depths |-> acc, ok |-> FALSE]
        ELSE IF i > Len(code)
        THEN [depths |-> Append(acc, d0), ok |-> fr0 = <<>>]
        ELSE IF SkipsFunction(code, i)
        THEN DepthScan(code, i + 1, code[i - 3].opv[2].as_int,
                       <<<<code[i].opv[1].as_int, d0>>>> \o fr0, Append(acc, d0), ok0)
        ELSE DepthScan(code, i + 1, d0 + Effect(code[i]), fr0, Append(acc, d0), ok0)

\* no instruction finds too few values, every function frame ends empty and
\* every jump reaches its target with the depth of the path that falls
\* through to it
Balanced(code) ==
    LET s == DepthScan(code, 1, 0, <<>>, <<>>, TRUE)
    IN  /\ s.ok
        /\ \A i \in 1..Len(code) : s.depths[i] >= Need(code[i])
        /\ \A i \in 1..Len(code) :
              code[i].opcode \in Jumps =>
                  LET t == code[i].opv[1].as_int
                  IN  /\ t \in 0..Len(code)
                      /\ s.depths[t + 1] = s.depths[i] + Effect(code[i])

\* the code in st with every promise replaced by the value it holds
Resolved(st) ==
    [i \in 1..Len(st.code) |->
        Instr(st.code[i].opcode,
              [j \in 1..Len(st.code[i].opv) |->
                  IF st.code[i].opv[j].type = "OPTP_PROMISE"
                  THEN OpInt(st.promises[st.code[i].opv[j].as_int].value)
                  ELSE st.code[i].opv[j]])]

RECURSIVE SubNodes(_)
RECURSIVE SubNodesOfList(_, _)
\* the nodes of a tree that emitInstrForNode is called on
SubNodes(node) ==
    CASE node.kind = "NULL" -> <<>>
      [] node.kind = "NODE_EXPR" ->
           <<node>> \o
           ( CASE node.ekind \in OperKinds -> SubNodesOfList(node.head, 1)
               [] node.ekind = "EXPR_ASS" ->
                    IF node.head[1].ekind = "EXPR_PAIR" THEN <<>>
                    ELSE SubNodes(node.head[2])
               [] node.ekind = "EXPR_CALL" ->
                    SubNodesOfList(node.argv, 1) \o SubNodes(node.func)
               [] node.ekind = "EXPR_SELECT" ->
                    SubNodes(node.set) \o SubNodes(node.idx)
               [] node.ekind = "EXPR_LIST" -> SubNodesOfList(node.items, 1)
               [] node.ekind = "EXPR_MAP" ->
                    SubNodesOfList(node.keys, 1) \o SubNodesOfList(node.items, 1)
               [] OTHER -> <<>> )
      [] node.kind = "NODE_IFELSE" ->
           <<node>> \o SubNodes(node.condition) \o SubNodes(node.true_branch)
                    \o SubNodes(node.false_branch)
      [] node.kind \in {"NODE_WHILE", "NODE_DOWHILE"} ->
           <<node>> \o SubNodes(node.condition) \o SubNodes(node.body)
      [] node.kind = "NODE_COMP" -> <<node>> \o SubNodesOfList(node.head, 1)
      [] node.kind = "NODE_FUNC" -> <<node>> \o SubNodes(node.body)
      [] OTHER -> <<node>>

SubNodesOfList(nodes, i) ==
    IF i > Len(nodes) THEN <<>>
    ELSE SubNodes(nodes[i]) \o SubNodesOfList(nodes, i + 1)

\* the net effect on the depth of the code that emitInstrForNode emits for
\* node alone, inside a loop whose end is promise 1
NetEffect(node) ==
    LET st   == emitInstrForNode(newOffsetPromise([NoCtx EXCEPT !.ncalls = 2]), node, 1)
        code == Resolved(st)
        s    == DepthScan(code, 1, 0, <<>>, <<>>, TRUE)
    IN  IF st.jumped \/ ~s.ok THEN -1 ELSE s.depths[Len(code) + 1]

\* C15: the code of a program that compiles is balanced: no instruction finds
\* too few values on the stack, every jump (break included) reaches its
\* target with the depth of the path that falls through to it, the program
\* and every function frame end with depth 0, every expression node lowers to
\* code of net effect +1 and every statement node to code of net effect 0
C15_StackBalanced ==
    (pc = "returned" /\ result = "exe" /\ ~ctx.error.occurred) =>
        LET nodes == SubNodes(Program(input.prog))
        IN  /\ Balanced(exe)
            /\ DepthScan(exe, 1, 0, <<>>, <<>>, TRUE).depths[Len(exe)] = 0
            /\ \A n \in 1..Len(nodes) :
                  NetEffect(nodes[n]) = IF nodes[n].kind = "NODE_EXPR" THEN 1 ELSE 0

C15_Witness ==
    /\ pc = "returned"
    /\ result = "exe"
    /\ ~ctx.error.occurred
    /\ input.prog = "loop_in_fun"
    /\ Cardinality({ i \in 1..Len(exe) : exe[i].opcode = "PUSHFUN" }) = 2
    /\ \E i \in 1..Len(exe) : exe[i].opcode = "JUMPIFNOTANDPOP"
    /\ Balanced(exe)

-----------------------------------------------------------------------------
(* Where the code of each statement lies in the Executable *)

\* what emitInstrForNode leaves in the context for node alone, inside a loop
\* whose end is promise 1
Alone(node) ==
    emitInstrForNode(newOffsetPromise([NoCtx EXCEPT !.ncalls = 2]), node, 1)

\* the number of instructions emitted for node
CodeLen(node) == IF node.kind = "NULL" THEN 0 ELSE Len(Alone(node).code)

\* the same with the POP 1 that follows a node of kind NODE_EXPR
StmtLen(node) == CodeLen(node) + (IF node.kind = "NODE_EXPR" THEN 1 ELSE 0)

\* the number of promises made while node is lowered
PromisesMade(node) == IF node.kind = "NULL" THEN 0 ELSE Len(Alone(node).promises) - 1

\* outside every loop of the function body
NoLoop == [kind |-> "NULL", end |-> -1]

RECURSIVE Placed(_, _, _)
RECURSIVE PlacedList(_, _, _, _)
\* the if/else, loop and break statements of a tree whose code starts at
\* index at, each with the index where its own code starts and, as loop, the
\* kind of the innermost loop around it and the index after the code of that
\* loop
Placed(node, at, loop) ==
    CASE node.kind = "NODE_IFELSE" ->
           LET c == CodeLen(node.condition)
               t == StmtLen(node.true_branch)
           IN  <<[node |-> node, at |-> at, loop |-> loop]>>
               \o Placed(node.true_branch, at + c + 1, loop)
               \o (IF node.false_branch.kind = "NULL" THEN <<>>
                   ELSE Placed(node.false_branch, at + c + 1 + t + 1, loop))
      [] node.kind = "NODE_WHILE" ->
           <<[node |-> node, at |-> at, loop |-> loop]>>
           \o Placed(node.body, at + CodeLen(node.condition) + 1,
                     [kind |-> "NODE_WHILE", end |-> at + CodeLen(node)])
      [] node.kind = "NODE_DOWHILE" ->
           <<[node |-> node, at |-> at, loop |-> loop]>>
           \o Placed(node.body, at, [kind |-> "NODE_DOWHILE", end |-> at + CodeLen(node)])
      [] node.kind = "NODE_COMP" -> PlacedList(node.head, 1, at, loop)
      [] node.kind = "NODE_FUNC" -> Placed(node.body, at + 4 + 2 * node.argc, NoLoop)
      [] node.kind = "NODE_BREAK" -> <<[node |-> node, at |-> at, loop |-> loop]>>
      [] OTHER -> <<>>

PlacedList(head, i, at, loop) ==
    IF i > Len(head) THEN <<>>
    ELSE Placed(head[i], at, loop) \o PlacedList(head, i + 1, at + StmtLen(head[i]), loop)

\* code holds the lowering of the if/else from index at on; index i is place
\* i + 1 of the sequence
IfElseLayout(code, ifelse, at) ==
    LET c == CodeLen(ifelse.condition)
        t == StmtLen(ifelse.true_branch)
        f == StmtLen(ifelse.false_branch)
        inner == PromisesMade(ifelse.condition) + PromisesMade(ifelse.true_branch)
                 + PromisesMade(ifelse.false_branch)
    IN  IF ifelse.false_branch.kind # "NULL"
        THEN /\ CodeLen(ifelse) = c + 1 + t + 1 + f
             /\ PromisesMade(ifelse) = inner + 2
             /\ code[at + c + 1] = Instr("JUMPIFNOTANDPOP", <<OpInt(at + c + 1 + t + 1)>>)
             /\ code[at + c + 1 + t + 1] = Instr("JUMP", <<OpInt(at + c + 1 + t + 1 + f)>>)
             /\ ifelse.true_branch.kind = "NODE_EXPR" =>
                    code[at + c + 1 + t] = Instr("POP", <<OpInt(1)>>)
             /\ ifelse.false_branch.kind = "NODE_EXPR" =>
                    code[at + c + 1 + t + 1 + f] = Instr("POP", <<OpInt(1)>>)
        ELSE /\ CodeLen(ifelse) = c + 1 + t
             /\ PromisesMade(ifelse) = inner + 1
             /\ code[at + c + 1] = Instr("JUMPIFNOTANDPOP", <<OpInt(at + c + 1 + t)>>)
             /\ ifelse.true_branch.kind = "NODE_EXPR" =>
                    code[at + c + 1 + t] = Instr("POP", <<OpInt(1)>>)

\* C16: in the Executable of a program that compiles, every if/else has its
\* JUMPIFNOTANDPOP right after the condition. With a false branch it targets
\* the first instruction of the false branch, right after the JUMP that ends
\* the true branch, and that JUMP targets the index after the false branch,
\* trailing POP 1 included; the statement makes two promises. With no false
\* branch it makes one promise, emits no JUMP, and the JUMPIFNOTANDPOP targets
\* the index after the true branch, trailing POP 1 included
C16_IfElsePatched ==
    (pc = "returned" /\ result = "exe" /\ ~ctx.error.occurred) =>
        LET stmts == Placed(Program(input.prog), 0, NoLoop)
        IN  \A n \in 1..Len(stmts) :
               stmts[n].node.kind = "NODE_IFELSE" =>
                   IfElseLayout(exe, stmts[n].node, stmts[n].at)

\* if c: x; else y;
C16_Witness ==
    /\ pc = "returned"
    /\ result = "exe"
    /\ ~ctx.error.occurred
    /\ input.prog = "ifelse_expr"
    /\ exe[2] = Instr("JUMPIFNOTANDPOP", <<OpInt(5)>>)
    /\ exe[5] = Instr("JUMP", <<OpInt(7)>>)
    /\ Len(exe) = 8

\* code holds the lowering of the while loop from index at on
WhileLayout(code, whl, at) ==
    LET c == CodeLen(whl.condition)
        b == StmtLen(whl.body)
        E == at + c + 1 + b + 1
    IN  /\ CodeLen(whl) = c + 1 + b + 1
        /\ PromisesMade(whl.condition) = 0 =>
               SubSeq(code, at + 1, at + c) = Alone(whl.condition).code
        /\ code[at + c + 1] = Instr("JUMPIFNOTANDPOP", <<OpInt(E)>>)
        /\ whl.body.kind = "NODE_EXPR" => code[at + c + 1 + b] = Instr("POP", <<OpInt(1)>>)
        /\ code[at + c + 1 + b + 1] = Instr("JUMP", <<OpInt(at)>>)

\* while n > 0: { n = n - 1; }  with S = 0 and E = 10
Scenario3 ==
    << Instr("PUSHVAR", <<OpString("n")>>),
       Instr("PUSHINT", <<OpInt(0)>>),
       Instr("GRT", <<>>),
       Instr("JUMPIFNOTANDPOP", <<OpInt(10)>>),
       Instr("PUSHVAR", <<OpString("n")>>),
       Instr("PUSHINT", <<OpInt(1)>>),
       Instr("SUB", <<>>),
       Instr("ASS", <<OpString("n")>>),
       Instr("POP", <<OpInt(1)>>),
       Instr("JUMP", <<OpInt(0)>>),
       Instr("RETURN", <<OpInt(0)>>) >>

\* C17: in the Executable of a program that compiles, every while loop is the
\* condition, JUMPIFNOTANDPOP E, the body (and POP 1 when the body is an
\* expression), JUMP S, with S the index of the first instruction of the
\* condition and E the index after the JUMP S; every break whose innermost
\* loop is a while is a JUMP to the E of that loop; and
\* while n > 0: { n = n - 1; } gives the 11 instructions of scenario 3
C17_WhileLowering ==
    (pc = "returned" /\ result = "exe" /\ ~ctx.error.occurred) =>
        LET stmts == Placed(Program(input.prog), 0, NoLoop)
        IN  /\ \A n \in 1..Len(stmts) :
                  /\ stmts[n].node.kind = "NODE_WHILE" =>
                         WhileLayout(exe, stmts[n].node, stmts[n].at)
                  /\ (stmts[n].node.kind = "NODE_BREAK"
                         /\ stmts[n].loop.kind = "NODE_WHILE") =>
                         exe[stmts[n].at + 1] = Instr("JUMP", <<OpInt(stmts[n].loop.end)>>)
            /\ input.prog = "while" => exe = Scenario3

\* while a: { while b: break; break; }
C17_Witness ==
    /\ pc = "returned"
    /\ result = "exe"
    /\ ~ctx.error.occurred
    /\ input.prog = "nested_loops"
    /\ Cardinality({ i \in 1..Len(exe) : exe[i].opcode = "JUMPIFNOTANDPOP" }) = 2
    /\ Cardinality({ i \in 1..Len(exe) : exe[i].opcode = "JUMP" }) = 4

\* code, taken before the promises are replaced, holds the lowering of the
\* do-while loop from index at on
DoWhileLayout(code, dowhl, at) ==
    LET b == StmtLen(dowhl.body)
        c == CodeLen(dowhl.condition)
    IN  /\ CodeLen(dowhl) = b + c + 1
        /\ PromisesMade(dowhl) = PromisesMade(dowhl.body) + PromisesMade(dowhl.condition) + 1
        /\ dowhl.body.kind = "NODE_EXPR" => code[at + b] = Instr("POP", <<OpInt(1)>>)
        /\ PromisesMade(dowhl.condition) = 0 =>
               SubSeq(code, at + b + 1, at + b + c) = Alone(dowhl.condition).code
        /\ code[at + b + c + 1] = Instr("JUMPIFANDPOP", <<OpInt(at)>>)

\* C18: in the code of a program that compiles, every do-while loop is the
\* body (and POP 1 when the body is an expression), the condition, and
\* JUMPIFANDPOP with an operand of kind INT, before any promise is replaced,
\* equal to the index of the first instruction of the body; every break whose
\* innermost loop is a do-while is a JUMP to the index after that JUMPIFANDPOP
C18_DoWhileLowering ==
    (pc = "returned" /\ result = "exe" /\ ~ctx.error.occurred) =>
        LET stmts == Placed(Program(input.prog), 0, NoLoop)
        IN  \A n \in 1..Len(stmts) :
               /\ stmts[n].node.kind = "NODE_DOWHILE" =>
                      /\ DoWhileLayout(ctx.code, stmts[n].node, stmts[n].at)
                      /\ DoWhileLayout(exe, stmts[n].node, stmts[n].at)
               /\ (stmts[n].node.kind = "NODE_BREAK"
                      /\ stmts[n].loop.kind = "NODE_DOWHILE") =>
                      /\ exe[stmts[n].at + 1] = Instr("JUMP", <<OpInt(stmts[n].loop.end)>>)
                      /\ exe[stmts[n].loop.end].opcode = "JUMPIFANDPOP"

\* y; do { while a: break; if b: break; x; } while c;
C18_Witness ==
    /\ pc = "returned"
    /\ result = "exe"
    /\ ~ctx.error.occurred
    /\ input.prog = "dowhile_nested"
    /\ \E i \in 1..Len(exe) : exe[i] = Instr("JUMPIFANDPOP", <<OpInt(2)>>)
    /\ Cardinality({ i \in 1..Len(exe) : exe[i].opcode = "JUMP" }) = 3

====
